---- MODULE Spec2Model ----
(***************************************************************************)
(* Onager: the named-graph registry (graph.rs), the array-based algorithms *)
(* (algorithms/*.rs) and the last-error slot of the C entry points        *)
(* (ffi/*.rs).                                                             *)
(*                                                                         *)
(* Spec      one caller; every registry operation is one step (take the    *)
(*           lock, run the body, drop the guard).                          *)
(* SpecConc  several threads; taking the lock, the function's tests and    *)
(*           its changes are separate steps, so that what the lock admits  *)
(*           and what it protects are visible.                             *)
(* SpecAlg   calls of the array-based compute_* functions.                 *)
(* SpecFfi   threads calling the C entry points; every atomic access of    *)
(*           LAST_ERROR and every free is a step of its own.               *)
(***************************************************************************)
EXTENDS Integers, Sequences, FiniteSets, TLC

VARIABLES GRAPH_REGISTRY, ret, hist, pc, tcall, tret, rwlock, ncalls, algCall, algRet,
          LAST_ERROR, heap, fpc, fcall, old, fret, seen, nffi

vars == <<GRAPH_REGISTRY, ret, hist, pc, tcall, tret, rwlock, ncalls, algCall, algRet,
          LAST_ERROR, heap, fpc, fcall, old, fret, seen, nffi>>

regVars == <<GRAPH_REGISTRY, ret, hist>>
concVars == <<pc, tcall, tret, rwlock, ncalls>>
algVars == <<algCall, algRet>>
ffiVars == <<LAST_ERROR, heap, fpc, fcall, old, fret, seen, nffi>>

(***************************************************************************)
(* Bounds and input universes.                                             *)
(***************************************************************************)
\* Largest number of edges stored in the whole registry.
MaxEdges == 2
\* Number of registry calls made in one behaviour of SpecConc.
MaxCalls == 2

\* The edges stored in all graphs of the registry map reg.
TotalEdges(reg) ==
    LET RECURSIVE Sum(_)
        Sum(S) == IF S = {} THEN 0
                  ELSE LET n == CHOOSE x \in S : TRUE
                       IN Len(reg[n].edges) + Sum(S \ {n})
    IN Sum(DOMAIN reg)

\* The model keeps at most MaxEdges edges.
WithinBounds(reg) == TotalEdges(reg) <= MaxEdges

Names == {"a", "b"}
Ids == {1, 2}
Weights == {1}
Threads == {1, 2}

NoName == ""
NoThread == 0

(***************************************************************************)
(* error.rs: Result<T, OnagerError>.  A result is a record: kind is "Ok"   *)
(* or the error variant; name / id carry the variant's payload; count and  *)
(* names carry the Ok value of the queries.                                *)
(***************************************************************************)
Res(kind, name, id, count, names) ==
    [kind |-> kind, name |-> name, id |-> id, count |-> count, names |-> names]

OkUnit == Res("Ok", NoName, 0, 0, {})
OkCount(n) == Res("Ok", NoName, 0, n, {})
OkNames(s) == Res("Ok", NoName, 0, 0, s)
GraphNotFound(name) == Res("GraphNotFound", name, 0, 0, {})
GraphAlreadyExists(name) == Res("GraphAlreadyExists", name, 0, 0, {})
NodeNotFound(id) == Res("NodeNotFound", NoName, id, 0, {})
\* InvalidArgument(format!("Node {} already exists", node_id))
NodeAlreadyExists(id) == Res("InvalidArgument", NoName, id, 0, {})

NoRes == Res("None", NoName, 0, 0, {})

(***************************************************************************)
(* graph.rs: GraphType.  nodes is the graph's node storage (position i+1   *)
(* holds the payload of internal NodeId i), edges its edge storage in      *)
(* insertion order, node_mapping the external id -> NodeId map.            *)
(***************************************************************************)
EmptyMap == [x \in {} |-> 0]

GraphType_new(directed) ==
    [edges |-> <<>>, directed |-> directed, nodes |-> <<>>, node_mapping |-> EmptyMap]

GraphType_is_directed(g) == g.directed

GraphType_node_count(g) == Len(g.nodes)

GraphType_edge_count(g) == Len(g.edges)

\* w.graph.add_node(node_id): the payload is stored at the next index, which
\* is returned as the node's NodeId.
graph_add_node(g, node_id) ==
    [g |-> [g EXCEPT !.nodes = Append(@, node_id)], internal_id |-> Len(g.nodes)]

\* An edge store that keeps one edge per ordered pair of endpoints.
graph_add_edge_dedup(g, src_id, dst_id, weight) ==
    IF \E i \in 1..Len(g.edges) : g.edges[i].s = src_id /\ g.edges[i].t = dst_id
    THEN g
    ELSE [g EXCEPT !.edges = Append(@, [s |-> src_id, t |-> dst_id, w |-> weight])]

\* w.graph.add_edge(src_id, dst_id, weight): always appends an edge.
graph_add_edge(g, src_id, dst_id, weight) ==
    [g EXCEPT !.edges = Append(@, [s |-> src_id, t |-> dst_id, w |-> weight])]

\* add_node without the contains_key test.
GraphType_add_node_unchecked(g, node_id) ==
    LET added == graph_add_node(g, node_id)
    IN [g |-> [added.g EXCEPT !.node_mapping =
                   (node_id :> added.internal_id) @@ [x \in DOMAIN @ \ {node_id} |-> @[x]]],
        res |-> OkUnit]

GraphType_add_node(g, node_id) ==
    IF node_id \in DOMAIN g.node_mapping
    THEN [g |-> g, res |-> NodeAlreadyExists(node_id)]
    ELSE LET added == graph_add_node(g, node_id)
         IN [g |-> [added.g EXCEPT !.node_mapping = (node_id :> added.internal_id) @@ @],
             res |-> OkUnit]

\* add_edge that inserts a missing endpoint instead of failing.
GraphType_add_edge_implicit(g, src, dst, weight) ==
    LET g1 == IF src \in DOMAIN g.node_mapping THEN g ELSE GraphType_add_node(g, src).g
        g2 == IF dst \in DOMAIN g1.node_mapping THEN g1 ELSE GraphType_add_node(g1, dst).g
    IN [g |-> graph_add_edge(g2, g2.node_mapping[src], g2.node_mapping[dst], weight),
        res |-> OkUnit]

GraphType_add_edge(g, src, dst, weight) ==
    IF src \notin DOMAIN g.node_mapping THEN [g |-> g, res |-> NodeNotFound(src)]
    ELSE IF dst \notin DOMAIN g.node_mapping THEN [g |-> g, res |-> NodeNotFound(dst)]
    ELSE [g |-> graph_add_edge(g, g.node_mapping[src], g.node_mapping[dst], weight),
          res |-> OkUnit]

\* Number of positions of the edge storage that satisfy P.
CountEdges(edges, P(_)) == Cardinality({i \in 1..Len(edges) : P(edges[i])})

\* Digraph::in_degree / out_degree, Graph::degree: None for a NodeId the
\* graph does not hold.
graph_has_node(g, n) == n \in 0..(Len(g.nodes) - 1)

\* in_degree that counts every edge at the node, as degree does.
graph_in_degree_incident(g, n) == CountEdges(g.edges, LAMBDA e : e.s = n \/ e.t = n)

graph_in_degree(g, n) == CountEdges(g.edges, LAMBDA e : e.t = n)

graph_out_degree(g, n) == CountEdges(g.edges, LAMBDA e : e.s = n)

graph_degree(g, n) == CountEdges(g.edges, LAMBDA e : e.s = n \/ e.t = n)

(***************************************************************************)
(* graph.rs: the registry functions, as functions of the map the guard     *)
(* gives access to.  Each yields the map it leaves and the result.         *)
(***************************************************************************)
\* create_graph that inserts without the contains_key test.
create_graph_overwrite(reg, name, directed) ==
    [reg |-> (name :> GraphType_new(directed)) @@ reg, res |-> OkUnit]

create_graph(reg, name, directed) ==
    IF name \in DOMAIN reg
    THEN [reg |-> reg, res |-> GraphAlreadyExists(name)]
    ELSE [reg |-> (name :> GraphType_new(directed)) @@ reg, res |-> OkUnit]

\* drop_graph that looks the name up and does not remove it.
drop_graph_keep(reg, name) ==
    IF name \notin DOMAIN reg
    THEN [reg |-> reg, res |-> GraphNotFound(name)]
    ELSE [reg |-> reg, res |-> OkUnit]

\* drop_graph that ignores what remove returned.
drop_graph_silent(reg, name) ==
    [reg |-> [n \in DOMAIN reg \ {name} |-> reg[n]], res |-> OkUnit]

drop_graph(reg, name) ==
    IF name \notin DOMAIN reg
    THEN [reg |-> reg, res |-> GraphNotFound(name)]
    ELSE [reg |-> [n \in DOMAIN reg \ {name} |-> reg[n]], res |-> OkUnit]

list_graphs(reg) == [reg |-> reg, res |-> OkNames(DOMAIN reg)]

\* add_node that adds the node to every graph of the registry that lacks it.
add_node_every_graph(reg, graph_name, node_id) ==
    IF graph_name \notin DOMAIN reg
    THEN [reg |-> reg, res |-> GraphNotFound(graph_name)]
    ELSE [reg |-> [n \in DOMAIN reg |-> GraphType_add_node(reg[n], node_id).g],
          res |-> GraphType_add_node(reg[graph_name], node_id).res]

add_node(reg, graph_name, node_id) ==
    IF graph_name \notin DOMAIN reg
    THEN [reg |-> reg, res |-> GraphNotFound(graph_name)]
    ELSE LET r == GraphType_add_node(reg[graph_name], node_id)
         IN [reg |-> [reg EXCEPT ![graph_name] = r.g], res |-> r.res]

add_edge(reg, graph_name, src, dst, weight) ==
    IF graph_name \notin DOMAIN reg
    THEN [reg |-> reg, res |-> GraphNotFound(graph_name)]
    ELSE LET r == GraphType_add_edge(reg[graph_name], src, dst, weight)
         IN [reg |-> [reg EXCEPT ![graph_name] = r.g], res |-> r.res]

node_count(reg, graph_name) ==
    IF graph_name \notin DOMAIN reg
    THEN [reg |-> reg, res |-> GraphNotFound(graph_name)]
    ELSE [reg |-> reg, res |-> OkCount(GraphType_node_count(reg[graph_name]))]

edge_count(reg, graph_name) ==
    IF graph_name \notin DOMAIN reg
    THEN [reg |-> reg, res |-> GraphNotFound(graph_name)]
    ELSE [reg |-> reg, res |-> OkCount(GraphType_edge_count(reg[graph_name]))]

get_node_in_degree(reg, graph_name, external_node_id) ==
    IF graph_name \notin DOMAIN reg
    THEN [reg |-> reg, res |-> GraphNotFound(graph_name)]
    ELSE LET g == reg[graph_name]
         IN IF external_node_id \notin DOMAIN g.node_mapping
            THEN [reg |-> reg, res |-> NodeNotFound(external_node_id)]
            ELSE LET node_id == g.node_mapping[external_node_id]
                 IN IF ~graph_has_node(g, node_id)
                    THEN [reg |-> reg, res |-> NodeNotFound(external_node_id)]
                    ELSE [reg |-> reg,
                          res |-> OkCount(IF g.directed THEN graph_in_degree(g, node_id)
                                                        ELSE graph_degree(g, node_id))]

get_node_out_degree(reg, graph_name, external_node_id) ==
    IF graph_name \notin DOMAIN reg
    THEN [reg |-> reg, res |-> GraphNotFound(graph_name)]
    ELSE LET g == reg[graph_name]
         IN IF external_node_id \notin DOMAIN g.node_mapping
            THEN [reg |-> reg, res |-> NodeNotFound(external_node_id)]
            ELSE LET node_id == g.node_mapping[external_node_id]
                 IN IF ~graph_has_node(g, node_id)
                    THEN [reg |-> reg, res |-> NodeNotFound(external_node_id)]
                    ELSE [reg |-> reg,
                          res |-> OkCount(IF g.directed THEN graph_out_degree(g, node_id)
                                                        ELSE graph_degree(g, node_id))]

(***************************************************************************)
(* A call of a registry function: the function's name and its arguments    *)
(* (the ones the function does not take are left at a default).            *)
(***************************************************************************)
Call(op, name, directed, src, dst, weight) ==
    [name |-> name, directed |-> directed, weight |-> weight, src |-> src, dst |-> dst,
     op |-> op]

NoCall == Call("none", NoName, FALSE, 0, 0, 0)

WriteOps == {"create_graph", "drop_graph", "add_node", "add_edge"}
ReadOps == {"list_graphs", "node_count", "edge_count", "get_node_in_degree",
            "get_node_out_degree"}

Calls ==
    {Call("create_graph", n, d, 0, 0, 0) : n \in Names, d \in BOOLEAN}
    \cup {Call("drop_graph", n, FALSE, 0, 0, 0) : n \in Names}
    \cup {Call("list_graphs", NoName, FALSE, 0, 0, 0)}
    \cup {Call("add_node", n[1], FALSE, n[2], 0, 0) : n \in Names \X Ids}
    \cup {Call("add_edge", n[1], FALSE, n[2], n[3], n[4]) : n \in Names \X Ids \X Ids \X Weights}
    \cup {Call(o[1], o[2], FALSE, 0, 0, 0) : o \in {"node_count", "edge_count"} \X Names}
    \cup {Call(o[1], o[2], FALSE, o[3], 0, 0) :
            o \in {"get_node_in_degree", "get_node_out_degree"} \X Names \X Ids}

\* The body of the called function, run on the registry map.
Run(reg, c) ==
    CASE c.op = "create_graph" -> create_graph(reg, c.name, c.directed)
      [] c.op = "drop_graph" -> drop_graph(reg, c.name)
      [] c.op = "list_graphs" -> list_graphs(reg)
      [] c.op = "add_node" -> add_node(reg, c.name, c.src)
      [] c.op = "add_edge" -> add_edge(reg, c.name, c.src, c.dst, c.weight)
      [] c.op = "node_count" -> node_count(reg, c.name)
      [] c.op = "edge_count" -> edge_count(reg, c.name)
      [] c.op = "get_node_in_degree" -> get_node_in_degree(reg, c.name, c.src)
      [] c.op = "get_node_out_degree" -> get_node_out_degree(reg, c.name, c.src)

\* create_graph and add_node taking the read guard.
LockMode_writers_read(op) ==
    IF op \in WriteOps \ {"create_graph", "add_node"} THEN "write" ELSE "read"

\* add_node taking the read guard.
LockMode_add_node_read(op) == IF op \in WriteOps \ {"add_node"} THEN "write" ELSE "read"

\* GRAPH_REGISTRY.write() or GRAPH_REGISTRY.read(), as the function takes it.
LockMode(op) == IF op \in WriteOps THEN "write" ELSE "read"

(***************************************************************************)
(* algorithms/*.rs: the array-based functions.  Each takes the edge list   *)
(* as parallel arrays src and dst (and weights), checks its arguments,     *)
(* builds a graph and hands it to the graph library.  An operator below    *)
(* takes the arguments the function's checks read; lib is what the library *)
(* call answers where the function passes a library error on.  A result    *)
(* is the Ok / error kind, the error's message, and whether an Ok result   *)
(* is empty.                                                               *)
(***************************************************************************)
\* Longest src / dst / weights array.
MaxLen == 2

\* Tenths: damping 1.0 is DampingOne.
DampingOne == 10

RECURSIVE SeqsUpTo(_, _)
SeqsUpTo(S, n) == IF n = 0 THEN {<<>>} ELSE SeqsUpTo(S, n - 1) \cup [1..n -> S]

Arrays == SeqsUpTo(Ids, MaxLen)
WeightArrays == SeqsUpTo({-1, 1}, MaxLen)
\* Node ids asked for; 3 occurs in no array.
Sources == Ids \cup {3}
\* Arrays over three node ids, for the distances: a path of two edges fits;
\* 4 occurs in no such array.
PathIds == {1, 2, 3}
PathArrays == SeqsUpTo(PathIds, MaxLen)
PathSources == PathIds \cup {4}
Counts == {0, 1}
TargetCounts == {-1, 0, 1}
Dampings == {-1, 0, 5, DampingOne, 11}
NodeLists == {<<>>, <<1>>, <<3>>, <<1, 2>>}
LibOutcomes == {"Ok", "GraphError"}

\* f64::INFINITY, above every distance the bounded graphs have.
Infinity == 1000

\* Option<W>.
None == <<>>
Some(d) == <<d>>

\* A result: Ok with its values (val: the distances by node id, or the one
\* value returned), or an error kind with its message.
AlgResVal(kind, msg, empty, val) == [kind |-> kind, msg |-> msg, empty |-> empty, val |-> val]
AlgRes(kind, msg, empty) == AlgResVal(kind, msg, empty, EmptyMap)
AlgErr(kind, msg) == AlgRes(kind, msg, FALSE)
\* An error whose payload names a node: format!("... {} ...", id), or
\* OnagerError::NodeNotFound(id); val holds the id.
AlgErrId(kind, msg, id) == AlgResVal(kind, msg, FALSE, <<id>>)
\* The early return of an empty result.
AlgOkEmpty == AlgRes("Ok", "", TRUE)
NoAlgRes == AlgRes("None", "", FALSE)

\* The keys of node_set / node_map: the ids that occur in src or dst.
NodeSet(src, dst) ==
    {src[i] : i \in 1..Len(src)} \cup {dst[i] : i \in 1..Len(dst)}

\* An Ok result built from the graph's nodes: empty when there is none.
AlgOk(src, dst) == AlgRes("Ok", "", NodeSet(src, dst) = {})

\* graph.nodes(): the distinct ids of src.iter().chain(dst.iter()), each
\* where it first occurs.
NodeList(src, dst) ==
    LET all == src \o dst
        RECURSIVE From(_)
        From(i) ==
            IF i > Len(all) THEN <<>>
            ELSE IF \E j \in 1..(i - 1) : all[j] = all[i] THEN From(i + 1)
            ELSE <<all[i]>> \o From(i + 1)
    IN From(1)

\* What a library function computed for the node id: the number itself is
\* not modelled, only which node it belongs to.
ValueOf(what, id) == <<what, id>>

\* library_call(&graph, ..).map_err(|e| GraphError(..))? / .ok_or_else(..)?
FromLib(lib, src, dst) ==
    IF lib = "Ok" THEN AlgOk(src, dst) ELSE AlgErr("GraphError", "library error")

\* The arcs of the undirected Graph built by add_edge(src[i], dst[i], w[i]):
\* each edge can be walked both ways.
Arcs(src, dst, weights) ==
    {<<src[i], dst[i], weights[i]>> : i \in 1..Len(src)}
        \cup {<<dst[i], src[i], weights[i]>> : i \in 1..Len(src)}

\* OrderedFloat(1.0) on every edge.
UnitWeights(src) == [i \in 1..Len(src) |-> 1]

\* k rounds of relaxation of every arc.
RECURSIVE RelaxTimes(_, _, _)
RelaxTimes(dist, arcs, k) ==
    LET MinOf(S) == CHOOSE x \in S : \A y \in S : x <= y
        Into(n) == {b \in arcs : b[2] = n /\ dist[b[1]] # Infinity}
        Relax == [n \in DOMAIN dist |->
                     MinOf({dist[n]} \cup {dist[a[1]] + a[3] : a \in Into(n)})]
    IN IF k = 0 THEN dist ELSE RelaxTimes(Relax, arcs, k - 1)

\* graphina's dijkstra(&graph, source): Some(shortest distance) for a node
\* reachable from the source, None for the others.
dijkstra(nodes, arcs, source) ==
    LET start == [n \in nodes |-> IF n = source THEN 0 ELSE Infinity]
        dist == RelaxTimes(start, arcs, Cardinality(nodes) - 1)
    IN [n \in nodes |-> IF dist[n] = Infinity THEN None ELSE Some(dist[n])]

\* distances.get(id).and_then(|d| *d) ... .unwrap_or(f64::INFINITY)
UnwrapOrInfinity(d) == IF d = None THEN Infinity ELSE d[1]

compute_dijkstra_reachable_only(src, dst, source_node, lib) ==
    IF Len(src) # Len(dst)
    THEN AlgErr("InvalidArgument", "src and dst arrays must have same length")
    ELSE IF src = <<>>
    THEN AlgErr("InvalidArgument", "Cannot compute on empty graph")
    ELSE IF source_node \notin NodeSet(src, dst)
    THEN AlgErrId("InvalidArgument", "Source node {} not found", source_node)
    ELSE IF lib # "Ok"
    THEN AlgErr("GraphError", "library error")
    ELSE LET distances == dijkstra(NodeSet(src, dst), Arcs(src, dst, UnitWeights(src)), source_node)
         IN AlgResVal("Ok", "", FALSE,
                      [n \in {m \in NodeSet(src, dst) : distances[m] # None} |-> distances[n][1]])

compute_dijkstra(src, dst, source_node, lib) ==
    IF Len(src) # Len(dst)
    THEN AlgErr("InvalidArgument", "src and dst arrays must have same length")
    ELSE IF src = <<>>
    THEN AlgErr("InvalidArgument", "Cannot compute on empty graph")
    ELSE IF source_node \notin NodeSet(src, dst)
    THEN AlgErrId("InvalidArgument", "Source node {} not found", source_node)
    ELSE IF lib # "Ok"
    THEN AlgErr("GraphError", "library error")
    ELSE LET distances == dijkstra(NodeSet(src, dst), Arcs(src, dst, UnitWeights(src)), source_node)
         IN AlgResVal("Ok", "", FALSE,
                      [n \in NodeSet(src, dst) |-> UnwrapOrInfinity(distances[n])])

\* graphina's bfs(&graph, source), dfs(&graph, source) and
\* bfs_parallel(&graph, &[source]): the nodes the traversal visits, which are
\* those the source reaches; their order is the library's.
Visited(src, dst, source) ==
    LET hops == dijkstra(NodeSet(src, dst), Arcs(src, dst, UnitWeights(src)), source)
    IN {n \in NodeSet(src, dst) : hops[n] # None}

compute_bfs(src, dst, source_node) ==
    IF Len(src) # Len(dst)
    THEN AlgErr("InvalidArgument", "src and dst arrays must have same length")
    ELSE IF src = <<>>
    THEN AlgErr("InvalidArgument", "Cannot compute on empty graph")
    ELSE IF source_node \notin NodeSet(src, dst)
    THEN AlgErrId("InvalidArgument", "Source node {} not found", source_node)
    ELSE LET traversal == Visited(src, dst, source_node)
         IN AlgResVal("Ok", "", traversal = {}, traversal)

compute_dfs(src, dst, source_node) ==
    IF Len(src) # Len(dst)
    THEN AlgErr("InvalidArgument", "src and dst arrays must have same length")
    ELSE IF src = <<>>
    THEN AlgErr("InvalidArgument", "Cannot compute on empty graph")
    ELSE IF source_node \notin NodeSet(src, dst)
    THEN AlgErrId("InvalidArgument", "Source node {} not found", source_node)
    ELSE LET traversal == Visited(src, dst, source_node)
         IN AlgResVal("Ok", "", traversal = {}, traversal)

compute_shortest_distance(src, dst, source_node, target_node, lib) ==
    IF Len(src) # Len(dst)
    THEN AlgErr("InvalidArgument", "src and dst arrays must have same length")
    ELSE IF src = <<>>
    THEN AlgErr("InvalidArgument", "Cannot compute on empty graph")
    ELSE IF source_node \notin NodeSet(src, dst)
    THEN AlgErrId("InvalidArgument", "Source node {} not found", source_node)
    ELSE IF target_node \notin NodeSet(src, dst)
    THEN AlgErrId("InvalidArgument", "Target node {} not found", target_node)
    ELSE IF lib # "Ok"
    THEN AlgErr("GraphError", "library error")
    ELSE LET distances == dijkstra(NodeSet(src, dst), Arcs(src, dst, UnitWeights(src)), source_node)
         IN AlgResVal("Ok", "", FALSE, <<UnwrapOrInfinity(distances[target_node])>>)

\* compute_bellman_ford that compares only src and dst.
compute_bellman_ford_two_arrays(src, dst, weights, source_node) ==
    IF Len(src) # Len(dst)
    THEN AlgErr("InvalidArgument", "src and dst arrays must have same length")
    ELSE IF src = <<>>
    THEN AlgErr("InvalidArgument", "Cannot compute on empty graph")
    ELSE IF source_node \notin NodeSet(src, dst)
    THEN AlgErrId("InvalidArgument", "Source node {} not found", source_node)
    ELSE AlgOk(src, dst)

\* graphina's bellman_ford(&graph, source) on the undirected Graph the
\* wrapper builds: every edge is relaxed both ways.  None when the
\* distances still fall after node_count - 1 rounds, which a negative edge
\* in reach of the source always brings about (it is walked back and
\* forth); otherwise Some(distance) per node the source reaches and None
\* for the others.
bellman_ford(nodes, arcs, source) ==
    LET start == [n \in nodes |-> IF n = source THEN 0 ELSE Infinity]
        settled == RelaxTimes(start, arcs, Cardinality(nodes) - 1)
    IN IF RelaxTimes(settled, arcs, 1) # settled THEN None
       ELSE Some([n \in nodes |-> IF settled[n] = Infinity THEN None ELSE Some(settled[n])])

compute_bellman_ford(src, dst, weights, source_node) ==
    IF Len(src) # Len(dst) \/ Len(src) # Len(weights)
    THEN AlgErr("InvalidArgument", "src, dst, and weights arrays must have same length")
    ELSE IF src = <<>>
    THEN AlgErr("InvalidArgument", "Cannot compute on empty graph")
    ELSE IF source_node \notin NodeSet(src, dst)
    THEN AlgErrId("InvalidArgument", "Source node {} not found", source_node)
    ELSE LET distances == bellman_ford(NodeSet(src, dst), Arcs(src, dst, weights), source_node)
         IN IF distances = None
            THEN AlgErr("GraphError", "Negative cycle detected")
            ELSE AlgResVal("Ok", "", FALSE,
                           [n \in NodeSet(src, dst) |-> UnwrapOrInfinity(distances[1][n])])

\* graphina's floyd_warshall(&graph): None on a negative cycle (lib),
\* otherwise a row of distances from every node to every node.  The result
\* keeps the pairs <<from_ext, to_ext>> with from_ext != to_ext (the
\* distances themselves are the library's): none when there is one node.
compute_floyd_warshall(src, dst, weights, lib) ==
    IF Len(src) # Len(dst) \/ Len(src) # Len(weights)
    THEN AlgErr("InvalidArgument", "src, dst, and weights arrays must have same length")
    ELSE IF src = <<>>
    THEN AlgErr("InvalidArgument", "Cannot compute on empty graph")
    ELSE IF lib # "Ok"
    THEN AlgErr("GraphError", "Negative cycle detected")
    ELSE LET distances == NodeSet(src, dst) \X NodeSet(src, dst)
             result_src == {p \in distances : p[1] # p[2]}
         IN AlgResVal("Ok", "", result_src = {}, result_src)

compute_pagerank(src, dst, lib) ==
    IF Len(src) # Len(dst)
    THEN AlgErr("InvalidArgument", "src and dst arrays must have same length")
    ELSE FromLib(lib, src, dst)

\* The rows <<node id, in-degree, out-degree>>, one per key of node_set (in
\* the order of NodeList here; a HashMap fixes none).
compute_degree(src, dst, directed, lib) ==
    IF Len(src) # Len(dst)
    THEN AlgErr("InvalidArgument", "src and dst arrays must have same length")
    ELSE IF lib # "Ok"
    THEN AlgErr("GraphError", "library error")
    ELSE LET node_list == NodeList(src, dst)
         IN AlgResVal("Ok", "", node_list = <<>>,
                      [i \in 1..Len(node_list) |->
                          <<node_list[i],
                            ValueOf("in_degree", node_list[i]),
                            IF directed THEN ValueOf("out_degree", node_list[i])
                            ELSE ValueOf("in_degree", node_list[i])>>])

compute_betweenness(src, dst, lib) ==
    IF Len(src) # Len(dst)
    THEN AlgErr("InvalidArgument", "src and dst arrays must have same length")
    ELSE IF src = <<>>
    THEN AlgErr("InvalidArgument", "Cannot compute betweenness on empty graph")
    ELSE FromLib(lib, src, dst)

compute_closeness(src, dst, lib) ==
    IF Len(src) # Len(dst)
    THEN AlgErr("InvalidArgument", "src and dst arrays must have same length")
    ELSE IF src = <<>>
    THEN AlgErr("InvalidArgument", "Cannot compute closeness on empty graph")
    ELSE FromLib(lib, src, dst)

compute_eigenvector(src, dst, lib) ==
    IF Len(src) # Len(dst)
    THEN AlgErr("InvalidArgument", "src and dst arrays must have same length")
    ELSE IF src = <<>>
    THEN AlgErr("InvalidArgument", "Cannot compute eigenvector on empty graph")
    ELSE FromLib(lib, src, dst)

compute_katz(src, dst, lib) ==
    IF Len(src) # Len(dst)
    THEN AlgErr("InvalidArgument", "src and dst arrays must have same length")
    ELSE IF src = <<>>
    THEN AlgErr("InvalidArgument", "Cannot compute Katz on empty graph")
    ELSE FromLib(lib, src, dst)

compute_harmonic(src, dst, lib) ==
    IF Len(src) # Len(dst)
    THEN AlgErr("InvalidArgument", "src and dst arrays must have same length")
    ELSE IF src = <<>>
    THEN AlgErr("InvalidArgument", "Cannot compute harmonic on empty graph")
    ELSE FromLib(lib, src, dst)

\* The value is <<in_degree, out_degree>>: the edges with dst[i] == node and
\* those with src[i] == node.
compute_node_degree(src, dst, node) ==
    IF Len(src) # Len(dst)
    THEN AlgErr("InvalidArgument", "src and dst arrays must have same length")
    ELSE IF src = <<>>
    THEN AlgErr("InvalidArgument", "Cannot compute on empty graph")
    ELSE IF node \notin NodeSet(src, dst)
    THEN AlgErrId("InvalidArgument", "Node {} not found in graph", node)
    ELSE LET in_degree == Cardinality({i \in 1..Len(src) : dst[i] = node})
             out_degree == Cardinality({i \in 1..Len(src) : src[i] = node})
         IN AlgResVal("Ok", "", FALSE, <<in_degree, out_degree>>)

compute_voterank(src, dst) ==
    IF Len(src) # Len(dst)
    THEN AlgErr("InvalidArgument", "src and dst arrays must have same length")
    ELSE IF src = <<>>
    THEN AlgOkEmpty
    ELSE AlgOk(src, dst)

compute_local_reaching(src, dst, lib) ==
    IF Len(src) # Len(dst)
    THEN AlgErr("InvalidArgument", "src and dst arrays must have same length")
    ELSE IF src = <<>>
    THEN AlgOkEmpty
    ELSE FromLib(lib, src, dst)

compute_laplacian(src, dst, lib) ==
    IF Len(src) # Len(dst)
    THEN AlgErr("InvalidArgument", "src and dst arrays must have same length")
    ELSE IF src = <<>>
    THEN AlgOkEmpty
    ELSE FromLib(lib, src, dst)

\* compute_louvain that answers the empty edge list with an empty result.
compute_louvain_empty_ok(src, dst, lib) ==
    IF Len(src) # Len(dst)
    THEN AlgErr("InvalidArgument", "src and dst arrays must have same length")
    ELSE IF src = <<>>
    THEN AlgOkEmpty
    ELSE FromLib(lib, src, dst)

compute_louvain(src, dst, lib) ==
    IF Len(src) # Len(dst)
    THEN AlgErr("InvalidArgument", "src and dst arrays must have same length")
    ELSE IF src = <<>>
    THEN AlgErr("InvalidArgument", "Cannot compute on empty graph")
    ELSE FromLib(lib, src, dst)

compute_connected_components(src, dst) ==
    IF Len(src) # Len(dst)
    THEN AlgErr("InvalidArgument", "src and dst arrays must have same length")
    ELSE IF src = <<>>
    THEN AlgErr("InvalidArgument", "Cannot compute on empty graph")
    ELSE AlgOk(src, dst)

\* The rows <<node id, label>>: labels_vec[i] goes with node_list[i].
compute_label_propagation(src, dst, lib) ==
    IF Len(src) # Len(dst)
    THEN AlgErr("InvalidArgument", "src and dst arrays must have same length")
    ELSE IF src = <<>>
    THEN AlgErr("InvalidArgument", "Cannot compute on empty graph")
    ELSE IF lib # "Ok"
    THEN AlgErr("GraphError", "library error")
    ELSE LET node_list == NodeList(src, dst)
             labels_vec == [i \in 1..Len(node_list) |-> ValueOf("label", node_list[i])]
         IN AlgResVal("Ok", "", FALSE,
                      [i \in 1..Len(labels_vec) |-> <<node_list[i], labels_vec[i]>>])

compute_girvan_newman(src, dst, target_communities, lib) ==
    IF Len(src) # Len(dst)
    THEN AlgErr("InvalidArgument", "src and dst arrays must have same length")
    ELSE IF src = <<>>
    THEN AlgErr("InvalidArgument", "Cannot compute on empty graph")
    ELSE IF target_communities <= 0
    THEN AlgErr("InvalidArgument", "target_communities must be positive")
    ELSE FromLib(lib, src, dst)

compute_spectral_clustering(src, dst, k, lib) ==
    IF Len(src) # Len(dst)
    THEN AlgErr("InvalidArgument", "src and dst arrays must have same length")
    ELSE IF src = <<>>
    THEN AlgErr("InvalidArgument", "Cannot compute on empty graph")
    ELSE IF k = 0
    THEN AlgErr("InvalidArgument", "k must be positive")
    ELSE FromLib(lib, src, dst)

compute_infomap(src, dst, max_iter, lib) ==
    IF Len(src) # Len(dst)
    THEN AlgErr("InvalidArgument", "src and dst arrays must have same length")
    ELSE IF src = <<>>
    THEN AlgErr("InvalidArgument", "Cannot compute on empty graph")
    ELSE IF max_iter = 0
    THEN AlgErr("InvalidArgument", "max_iter must be positive")
    ELSE FromLib(lib, src, dst)

compute_jaccard(src, dst) ==
    IF Len(src) # Len(dst)
    THEN AlgErr("InvalidArgument", "src and dst arrays must have same length")
    ELSE IF src = <<>>
    THEN AlgErr("InvalidArgument", "Cannot compute on empty graph")
    ELSE AlgOk(src, dst)

compute_adamic_adar(src, dst) ==
    IF Len(src) # Len(dst)
    THEN AlgErr("InvalidArgument", "src and dst arrays must have same length")
    ELSE IF src = <<>>
    THEN AlgErr("InvalidArgument", "Cannot compute on empty graph")
    ELSE AlgOk(src, dst)

compute_preferential_attachment(src, dst) ==
    IF Len(src) # Len(dst)
    THEN AlgErr("InvalidArgument", "src and dst arrays must have same length")
    ELSE IF src = <<>>
    THEN AlgErr("InvalidArgument", "Cannot compute on empty graph")
    ELSE AlgOk(src, dst)

compute_resource_allocation(src, dst) ==
    IF Len(src) # Len(dst)
    THEN AlgErr("InvalidArgument", "src and dst arrays must have same length")
    ELSE IF src = <<>>
    THEN AlgErr("InvalidArgument", "Cannot compute on empty graph")
    ELSE AlgOk(src, dst)

\* The graph the metrics functions build: every id of src and dst a node,
\* every edge of unit weight and walked both ways; the hop distances from
\* every node to every node (None where there is no walk).
AllPairs(src, dst) ==
    [u \in NodeSet(src, dst) |->
        dijkstra(NodeSet(src, dst), Arcs(src, dst, UnitWeights(src)), u)]

\* graphina's diameter(&graph): the largest eccentricity, None when some
\* node cannot reach another.
diameter(src, dst) ==
    LET hops == AllPairs(src, dst)
        all == {hops[u][v] : u \in DOMAIN hops, v \in DOMAIN hops}
    IN IF None \in all THEN None
       ELSE CHOOSE m \in all : \A x \in all : x[1] <= m[1]

\* graphina's radius(&graph): the smallest eccentricity, None when some
\* node cannot reach another.
radius(src, dst) ==
    LET hops == AllPairs(src, dst)
        all == {hops[u][v] : u \in DOMAIN hops, v \in DOMAIN hops}
        Ecc(u) == CHOOSE m \in {hops[u][v] : v \in DOMAIN hops} :
                      \A v \in DOMAIN hops : hops[u][v][1] <= m[1]
    IN IF None \in all THEN None
       ELSE CHOOSE m \in {Ecc(u) : u \in DOMAIN hops} :
                \A u \in DOMAIN hops : m[1] <= Ecc(u)[1]

compute_diameter(src, dst) ==
    IF Len(src) # Len(dst)
    THEN AlgErr("InvalidArgument", "src and dst arrays must have same length")
    ELSE IF src = <<>>
    THEN AlgErr("InvalidArgument", "Cannot compute on empty graph")
    ELSE LET d == diameter(src, dst)
         IN AlgResVal("Ok", "", FALSE, IF d = None THEN <<-1>> ELSE d)

compute_radius(src, dst) ==
    IF Len(src) # Len(dst)
    THEN AlgErr("InvalidArgument", "src and dst arrays must have same length")
    ELSE IF src = <<>>
    THEN AlgErr("InvalidArgument", "Cannot compute on empty graph")
    ELSE LET v == radius(src, dst)
         IN AlgResVal("Ok", "", FALSE, IF v = None THEN <<-1>> ELSE v)

compute_avg_clustering(src, dst) ==
    IF Len(src) # Len(dst)
    THEN AlgErr("InvalidArgument", "src and dst arrays must have same length")
    ELSE IF src = <<>>
    THEN AlgErr("InvalidArgument", "Cannot compute on empty graph")
    ELSE AlgOk(src, dst)

\* A float that is not a number, written as the fraction 0/0.
NaN == <<0, 0>>

\* graphina's average_path_length(&graph): the mean hop distance over the
\* ordered pairs of distinct nodes, a fraction <<sum, pairs>>; None when
\* some node cannot reach another; with fewer than two nodes there is no
\* pair and the library decides (lib).
average_path_length(src, dst, lib) ==
    LET hops == AllPairs(src, dst)
        n == Cardinality(DOMAIN hops)
        RECURSIVE Sum(_)
        Sum(P) == IF P = {} THEN 0
                  ELSE LET p == CHOOSE x \in P : TRUE
                       IN hops[p[1]][p[2]][1] + Sum(P \ {p})
    IN IF \E u \in DOMAIN hops, v \in DOMAIN hops : hops[u][v] = None THEN None
       ELSE IF n < 2 THEN (IF lib = "Ok" THEN Some(<<0, 1>>) ELSE None)
       ELSE Some(<<Sum({p \in (DOMAIN hops) \X (DOMAIN hops) : p[1] # p[2]}), n * (n - 1)>>)

compute_avg_path_length(src, dst, lib) ==
    IF Len(src) # Len(dst)
    THEN AlgErr("InvalidArgument", "src and dst arrays must have same length")
    ELSE IF src = <<>>
    THEN AlgErr("InvalidArgument", "Cannot compute on empty graph")
    ELSE LET v == average_path_length(src, dst, lib)
         IN AlgResVal("Ok", "", FALSE, IF v = None THEN <<NaN>> ELSE v)

compute_transitivity(src, dst) ==
    IF Len(src) # Len(dst)
    THEN AlgErr("InvalidArgument", "src and dst arrays must have same length")
    ELSE IF src = <<>>
    THEN AlgErr("InvalidArgument", "Cannot compute on empty graph")
    ELSE AlgOk(src, dst)

compute_triangle_count(src, dst) ==
    IF Len(src) # Len(dst)
    THEN AlgErr("InvalidArgument", "src and dst arrays must have same length")
    ELSE IF src = <<>>
    THEN AlgErr("InvalidArgument", "Cannot compute on empty graph")
    ELSE AlgOk(src, dst)

compute_assortativity(src, dst) ==
    IF Len(src) # Len(dst)
    THEN AlgErr("InvalidArgument", "src and dst arrays must have same length")
    ELSE IF src = <<>>
    THEN AlgErr("InvalidArgument", "Cannot compute on empty graph")
    ELSE AlgOk(src, dst)

\* The density is the fraction <<numerator, denominator>>.
compute_graph_density(src, dst, directed) ==
    IF Len(src) # Len(dst)
    THEN AlgErr("InvalidArgument", "src and dst arrays must have same length")
    ELSE IF src = <<>>
    THEN AlgErr("InvalidArgument", "Cannot compute on empty graph")
    ELSE LET n == Cardinality(NodeSet(src, dst))
             edges_len == Len(src)
             max_edges == n * (n - 1)
         IN IF n < 2 THEN AlgResVal("Ok", "", FALSE, <<0, 1>>)
            ELSE IF directed THEN AlgResVal("Ok", "", FALSE, <<edges_len, max_edges>>)
            ELSE AlgResVal("Ok", "", FALSE, <<2 * edges_len, max_edges>>)

\* The sum of the weights of the edges <<u, v, weight>> of a tree.
RECURSIVE TotalWeight(_)
TotalWeight(mst_edges) ==
    IF mst_edges = <<>> THEN 0
    ELSE mst_edges[1][3] + TotalWeight(Tail(mst_edges))

\* graphina's prim_mst(&graph): from the first node, the lightest edge that
\* leaves the tree is added until none leaves it; a node of another
\* component starts the next tree.  Returns the edges and their total weight.
prim_mst(src, dst, weights) ==
    LET nodes == NodeSet(src, dst)
        Crossing(V) == {i \in 1..Len(src) : (src[i] \in V) # (dst[i] \in V)}
        Lightest(R) ==
            CHOOSE i \in R : \A j \in R :
                weights[i] < weights[j] \/ (weights[i] = weights[j] /\ i <= j)
        RECURSIVE Grow(_, _)
        Grow(chosen, V) ==
            IF Crossing(V) # {}
            THEN LET i == Lightest(Crossing(V))
                 IN Grow(Append(chosen, <<src[i], dst[i], weights[i]>>), V \cup {src[i], dst[i]})
            ELSE IF V = nodes THEN chosen
            ELSE Grow(chosen, V \cup {CHOOSE n \in nodes \ V : \A m \in nodes \ V : n <= m})
        mst_edges == Grow(<<>>, {src[1]})
    IN <<mst_edges, TotalWeight(mst_edges)>>

\* graphina's kruskal_mst(&graph): the edges by ascending weight, each added
\* when its ends are not yet joined by the edges added before.  Returns the
\* edges and their total weight.
kruskal_mst(src, dst, weights) ==
    LET Lightest(R) ==
            CHOOSE i \in R : \A j \in R :
                weights[i] < weights[j] \/ (weights[i] = weights[j] /\ i <= j)
        Joined(chosen, u, v) ==
            LET RECURSIVE Component(_)
                Component(S) ==
                    LET T == S \cup {chosen[k][2] : k \in {l \in 1..Len(chosen) : chosen[l][1] \in S}}
                               \cup {chosen[k][1] : k \in {l \in 1..Len(chosen) : chosen[l][2] \in S}}
                    IN IF T = S THEN S ELSE Component(T)
            IN v \in Component({u})
        RECURSIVE Pick(_, _)
        Pick(chosen, rest) ==
            IF rest = {} THEN chosen
            ELSE LET i == Lightest(rest)
                 IN Pick(IF Joined(chosen, src[i], dst[i]) THEN chosen
                         ELSE Append(chosen, <<src[i], dst[i], weights[i]>>),
                         rest \ {i})
        mst_edges == Pick(<<>>, 1..Len(src))
    IN <<mst_edges, TotalWeight(mst_edges)>>

compute_prim_mst(src, dst, weights, lib) ==
    IF Len(src) # Len(dst) \/ Len(src) # Len(weights)
    THEN AlgErr("InvalidArgument", "src, dst, and weights arrays must have same length")
    ELSE IF src = <<>>
    THEN AlgErr("InvalidArgument", "Cannot compute on empty graph")
    ELSE IF lib # "Ok"
    THEN AlgErr("GraphError", "library error")
    ELSE LET mst == prim_mst(src, dst, weights)
         IN AlgResVal("Ok", "", mst[1] = <<>>, mst)

compute_kruskal_mst_unit_weights(src, dst, weights, lib) ==
    IF Len(src) # Len(dst) \/ Len(src) # Len(weights)
    THEN AlgErr("InvalidArgument", "src, dst, and weights arrays must have same length")
    ELSE IF src = <<>>
    THEN AlgErr("InvalidArgument", "Cannot compute on empty graph")
    ELSE IF lib # "Ok"
    THEN AlgErr("GraphError", "library error")
    ELSE LET mst == kruskal_mst(src, dst, UnitWeights(src))
         IN AlgResVal("Ok", "", mst[1] = <<>>, mst)

compute_kruskal_mst(src, dst, weights, lib) ==
    IF Len(src) # Len(dst) \/ Len(src) # Len(weights)
    THEN AlgErr("InvalidArgument", "src, dst, and weights arrays must have same length")
    ELSE IF src = <<>>
    THEN AlgErr("InvalidArgument", "Cannot compute on empty graph")
    ELSE IF lib # "Ok"
    THEN AlgErr("GraphError", "library error")
    ELSE LET mst == kruskal_mst(src, dst, weights)
         IN AlgResVal("Ok", "", mst[1] = <<>>, mst)

\* compute_max_clique that rejects the empty edge list as the traversal
\* functions do.
compute_max_clique_reject_empty(src, dst) ==
    IF Len(src) # Len(dst)
    THEN AlgErr("InvalidArgument", "src and dst arrays must have same length")
    ELSE IF src = <<>>
    THEN AlgErr("InvalidArgument", "Cannot compute on empty graph")
    ELSE AlgOk(src, dst)

compute_max_clique(src, dst) ==
    IF Len(src) # Len(dst)
    THEN AlgErr("InvalidArgument", "src and dst arrays must have same length")
    ELSE IF src = <<>>
    THEN AlgOkEmpty
    ELSE AlgOk(src, dst)

compute_independent_set(src, dst) ==
    IF Len(src) # Len(dst)
    THEN AlgErr("InvalidArgument", "src and dst arrays must have same length")
    ELSE IF src = <<>>
    THEN AlgOkEmpty
    ELSE AlgOk(src, dst)

compute_vertex_cover(src, dst) ==
    IF Len(src) # Len(dst)
    THEN AlgErr("InvalidArgument", "src and dst arrays must have same length")
    ELSE IF src = <<>>
    THEN AlgOkEmpty
    ELSE AlgOk(src, dst)

compute_tsp(src, dst, weights, lib) ==
    IF Len(src) # Len(dst) \/ Len(src) # Len(weights)
    THEN AlgErr("InvalidArgument", "src, dst, and weights arrays must have same length")
    ELSE IF src = <<>>
    THEN AlgErr("InvalidArgument", "Cannot compute TSP on empty graph")
    ELSE FromLib(lib, src, dst)

compute_pagerank_parallel(src, dst, weights) ==
    IF Len(src) # Len(dst)
    THEN AlgErr("InvalidArgument", "src and dst arrays must have same length")
    ELSE IF weights # <<>> /\ Len(weights) # Len(src)
    THEN AlgErr("InvalidArgument", "weights must be empty or same length as edges")
    ELSE IF src = <<>>
    THEN AlgErr("InvalidArgument", "Cannot compute on empty graph")
    ELSE AlgOk(src, dst)

compute_bfs_parallel(src, dst, source) ==
    IF Len(src) # Len(dst)
    THEN AlgErr("InvalidArgument", "src and dst arrays must have same length")
    ELSE IF src = <<>>
    THEN AlgErr("InvalidArgument", "Cannot compute on empty graph")
    ELSE IF source \notin NodeSet(src, dst)
    THEN AlgErrId("NodeNotFound", "Node not found", source)
    ELSE LET visit_order == Visited(src, dst, source)
         IN AlgResVal("Ok", "", visit_order = {}, visit_order)

\* The rows <<node id, distance>> of the library's distances_map, which
\* holds the nodes the source reaches (usize hop counts).
compute_shortest_paths_parallel(src, dst, source) ==
    IF Len(src) # Len(dst)
    THEN AlgErr("InvalidArgument", "src and dst arrays must have same length")
    ELSE IF src = <<>>
    THEN AlgErr("InvalidArgument", "Cannot compute on empty graph")
    ELSE IF source \notin NodeSet(src, dst)
    THEN AlgErrId("NodeNotFound", "Node not found", source)
    ELSE LET distances == dijkstra(NodeSet(src, dst), Arcs(src, dst, UnitWeights(src)), source)
             Reached(n) == distances[n] # None
             node_list == SelectSeq(NodeList(src, dst), Reached)
         IN AlgResVal("Ok", "", FALSE,
                      [i \in 1..Len(node_list) |-> <<node_list[i], distances[node_list[i]][1]>>])

compute_components_parallel(src, dst) ==
    IF Len(src) # Len(dst)
    THEN AlgErr("InvalidArgument", "src and dst arrays must have same length")
    ELSE IF src = <<>>
    THEN AlgErr("InvalidArgument", "Cannot compute on empty graph")
    ELSE AlgOk(src, dst)

compute_clustering_parallel(src, dst) ==
    IF Len(src) # Len(dst)
    THEN AlgErr("InvalidArgument", "src and dst arrays must have same length")
    ELSE IF src = <<>>
    THEN AlgErr("InvalidArgument", "Cannot compute on empty graph")
    ELSE AlgOk(src, dst)

compute_triangles_parallel(src, dst) ==
    IF Len(src) # Len(dst)
    THEN AlgErr("InvalidArgument", "src and dst arrays must have same length")
    ELSE IF src = <<>>
    THEN AlgErr("InvalidArgument", "Cannot compute on empty graph")
    ELSE AlgOk(src, dst)

\* The rows <<node id, score>>: ranks[i] goes with node_list[i].
compute_personalized_pagerank(src, dst, damping, max_iter, lib) ==
    IF Len(src) # Len(dst)
    THEN AlgErr("InvalidArgument", "src and dst arrays must have same length")
    ELSE IF src = <<>>
    THEN AlgErr("InvalidArgument", "Cannot compute on empty graph")
    ELSE IF ~(0 <= damping /\ damping < DampingOne)
    THEN AlgErr("InvalidArgument", "damping must be in (0, 1)")
    ELSE IF max_iter = 0
    THEN AlgErr("InvalidArgument", "max_iter must be positive")
    ELSE IF lib # "Ok"
    THEN AlgErr("GraphError", "library error")
    ELSE LET node_list == NodeList(src, dst)
             ranks == [i \in 1..Len(node_list) |-> ValueOf("rank", node_list[i])]
         IN AlgResVal("Ok", "", FALSE,
                      [i \in 1..Len(ranks) |-> <<node_list[i], ranks[i]>>])

\* graphina's Graph::ego_graph(center, radius), read back through
\* ego.edges(): the edges between the nodes within radius (max_hops) hops
\* of the center.
ego_graph(src, dst, center, max_hops) ==
    LET hops == dijkstra(NodeSet(src, dst), Arcs(src, dst, UnitWeights(src)), center)
        within == {n \in NodeSet(src, dst) : hops[n] # None /\ hops[n][1] <= max_hops}
        Kept(e) == e[1] \in within /\ e[2] \in within
    IN SelectSeq([i \in 1..Len(src) |-> <<src[i], dst[i]>>], Kept)

compute_ego_graph(src, dst, center, max_hops, lib) ==
    IF Len(src) # Len(dst)
    THEN AlgErr("InvalidArgument", "src and dst arrays must have same length")
    ELSE IF src = <<>>
    THEN AlgErr("InvalidArgument", "Cannot compute on empty graph")
    ELSE IF center \notin NodeSet(src, dst)
    THEN AlgErrId("NodeNotFound", "Node not found", center)
    ELSE IF lib # "Ok"
    THEN AlgErr("GraphError", "library error")
    ELSE LET ego == ego_graph(src, dst, center, max_hops)
         IN AlgResVal("Ok", "", ego = <<>>, ego)

\* graphina's Graph::k_hop_neighbors(start, k): the nodes within k hops of
\* start, start among them (with k = 0 it alone).
k_hop_neighbors(src, dst, start, k) ==
    LET hops == dijkstra(NodeSet(src, dst), Arcs(src, dst, UnitWeights(src)), start)
    IN {n \in NodeSet(src, dst) : hops[n] # None /\ hops[n][1] <= k}

compute_k_hop_neighbors(src, dst, start, k) ==
    IF Len(src) # Len(dst)
    THEN AlgErr("InvalidArgument", "src and dst arrays must have same length")
    ELSE IF src = <<>>
    THEN AlgErr("InvalidArgument", "Cannot compute on empty graph")
    ELSE IF start \notin NodeSet(src, dst)
    THEN AlgErrId("NodeNotFound", "Node not found", start)
    ELSE LET neighbors == k_hop_neighbors(src, dst, start, k)
         IN AlgResVal("Ok", "", neighbors = {}, neighbors)

\* What graphina's Graph::induced_subgraph(&selected_nodes) may answer (the
\* library is not in src/): a graph with the NodeIds of the one it was taken
\* from ("Ok"), or with its nodes numbered anew from the first ("Renumbered");
\* with the self-loops of the selected nodes or without them
\* ("NoSelfLoops"); or an error.
SubgraphOutcomes ==
    {"Ok", "GraphError", "NoSelfLoops", "Renumbered", "RenumberedNoSelfLoops"}

\* subgraph.edges() as pairs of NodeIds.  graph.add_node gives the ids
\* their NodeId in the order of NodeList (from 1 here); a subgraph numbered
\* anew numbers the selected nodes in that order (the order is the
\* library's).  Parallel edges are kept.
induced_subgraph(src, dst, selected_nodes, lib) ==
    LET nodes == NodeList(src, dst)
        NodeId(n) == CHOOSE i \in 1..Len(nodes) : nodes[i] = n
        NewId(n) == Cardinality({i \in 1..NodeId(n) : nodes[i] \in selected_nodes})
        Kept(e) == /\ e[1] \in selected_nodes /\ e[2] \in selected_nodes
                   /\ lib \in {"NoSelfLoops", "RenumberedNoSelfLoops"} => e[1] # e[2]
        edges == SelectSeq([i \in 1..Len(src) |-> <<src[i], dst[i]>>], Kept)
    IN [k \in 1..Len(edges) |->
           IF lib \in {"Renumbered", "RenumberedNoSelfLoops"}
           THEN <<NewId(edges[k][1]), NewId(edges[k][2])>>
           ELSE <<NodeId(edges[k][1]), NodeId(edges[k][2])>>]

\* selected_nodes keeps the ids of node_ids that node_map holds; the edges
\* of the subgraph are read back through reverse_map, the map of the graph
\* the subgraph was taken from, and an edge with an end reverse_map does not
\* hold is left out.
compute_induced_subgraph(src, dst, node_ids, lib) ==
    IF Len(src) # Len(dst)
    THEN AlgErr("InvalidArgument", "src and dst arrays must have same length")
    ELSE IF src = <<>>
    THEN AlgErr("InvalidArgument", "Cannot compute on empty graph")
    ELSE IF node_ids = <<>>
    THEN AlgErr("InvalidArgument", "node_ids must not be empty")
    ELSE IF lib = "GraphError"
    THEN AlgErr("GraphError", "library error")
    ELSE LET reverse_map == NodeList(src, dst)
             selected_nodes ==
                 {node_ids[i] : i \in 1..Len(node_ids)} \cap NodeSet(src, dst)
             subgraph == induced_subgraph(src, dst, selected_nodes, lib)
             Held(e) == e[1] \in DOMAIN reverse_map /\ e[2] \in DOMAIN reverse_map
             found == SelectSeq(subgraph, Held)
             result == [k \in 1..Len(found) |->
                           <<reverse_map[found[k][1]], reverse_map[found[k][2]]>>]
         IN AlgResVal("Ok", "", result = <<>>, result)

\* ---- algorithms/generators.rs ----
\* Probabilities are in tenths: ProbOne is 1.0.
ProbOne == 10

Probabilities == {-1, 0, 5, ProbOne, 11}
GenSizes == {0, 1, 2, 3}
Seeds == {0, 1}

\* What the library generator hands back: a graph with edges, a graph
\* without edges, or an error.
GenOutcomes == {"Ok", "GraphError", "Empty"}

FromGen(lib) ==
    IF lib = "GraphError"
    THEN AlgErr("GraphError", "library error")
    ELSE AlgRes("Ok", "", lib = "Empty")

generate_erdos_renyi(n, p, seed, lib) ==
    IF n = 0
    THEN AlgErr("InvalidArgument", "n must be > 0")
    ELSE IF ~(0 <= p /\ p <= ProbOne)
    THEN AlgErr("InvalidArgument", "p must be in [0, 1]")
    ELSE FromGen(lib)

generate_barabasi_albert(n, m, seed, lib) ==
    IF n = 0 \/ m = 0
    THEN AlgErr("InvalidArgument", "n and m must be > 0")
    ELSE IF m > n
    THEN AlgErr("InvalidArgument", "m must be <= n")
    ELSE FromGen(lib)

generate_watts_strogatz_any_k(n, k, beta, seed, lib) ==
    IF n = 0
    THEN AlgErr("InvalidArgument", "n must be > 0")
    ELSE IF k >= n
    THEN AlgErr("InvalidArgument", "k must be even and < n")
    ELSE IF ~(0 <= beta /\ beta <= ProbOne)
    THEN AlgErr("InvalidArgument", "beta must be in [0, 1]")
    ELSE FromGen(lib)

generate_watts_strogatz(n, k, beta, seed, lib) ==
    IF n = 0
    THEN AlgErr("InvalidArgument", "n must be > 0")
    ELSE IF k % 2 # 0 \/ k >= n
    THEN AlgErr("InvalidArgument", "k must be even and < n")
    ELSE IF ~(0 <= beta /\ beta <= ProbOne)
    THEN AlgErr("InvalidArgument", "beta must be in [0, 1]")
    ELSE FromGen(lib)

AlgCallRec(alg, src, dst, weights, node, target, n, damping, node_ids, lib, directed) ==
    [n |-> n, directed |-> directed, src |-> src, dst |-> dst, lib |-> lib,
     weights |-> weights, node |-> node, damping |-> damping, node_ids |-> node_ids,
     alg |-> alg, target |-> target]

NoAlgCall == AlgCallRec("none", <<>>, <<>>, <<>>, 0, 0, 0, 0, <<>>, "Ok", FALSE)

\* A call of a function of algorithms/traversal.rs over the input universe.
TraversalCalls ==
    \/ \E x_src \in PathArrays, x_dst \in PathArrays, x_node \in PathSources, x_lib \in LibOutcomes :
           algCall = AlgCallRec("compute_dijkstra", x_src, x_dst, <<>>, x_node, 0, 0, 0, <<>>, x_lib, FALSE)
    \/ \E x_src \in Arrays, x_dst \in Arrays, x_node \in Sources :
           algCall = AlgCallRec("compute_bfs", x_src, x_dst, <<>>, x_node, 0, 0, 0, <<>>, "Ok", FALSE)
    \/ \E x_src \in Arrays, x_dst \in Arrays, x_node \in Sources :
           algCall = AlgCallRec("compute_dfs", x_src, x_dst, <<>>, x_node, 0, 0, 0, <<>>, "Ok", FALSE)
    \/ \E x_src \in PathArrays, x_dst \in PathArrays, x_node \in PathSources, x_target \in PathSources, x_lib \in LibOutcomes :
           algCall = AlgCallRec("compute_shortest_distance", x_src, x_dst, <<>>, x_node, x_target, 0, 0, <<>>, x_lib, FALSE)
    \/ \E x_src \in PathArrays, x_dst \in PathArrays, x_weights \in WeightArrays, x_node \in PathSources :
           algCall = AlgCallRec("compute_bellman_ford", x_src, x_dst, x_weights, x_node, 0, 0, 0, <<>>, "Ok", FALSE)
    \/ \E x_src \in Arrays, x_dst \in Arrays, x_weights \in WeightArrays, x_lib \in LibOutcomes :
           algCall = AlgCallRec("compute_floyd_warshall", x_src, x_dst, x_weights, 0, 0, 0, 0, <<>>, x_lib, FALSE)

\* A call of a function of algorithms/centrality.rs over the input universe.
CentralityCalls ==
    \/ \E x_src \in Arrays, x_dst \in Arrays, x_lib \in LibOutcomes :
           algCall = AlgCallRec("compute_pagerank", x_src, x_dst, <<>>, 0, 0, 0, 0, <<>>, x_lib, FALSE)
    \/ \E x_src \in Arrays, x_dst \in Arrays, x_lib \in LibOutcomes, x_directed \in BOOLEAN :
           algCall = AlgCallRec("compute_degree", x_src, x_dst, <<>>, 0, 0, 0, 0, <<>>, x_lib, x_directed)
    \/ \E x_src \in Arrays, x_dst \in Arrays, x_lib \in LibOutcomes :
           algCall = AlgCallRec("compute_betweenness", x_src, x_dst, <<>>, 0, 0, 0, 0, <<>>, x_lib, FALSE)
    \/ \E x_src \in Arrays, x_dst \in Arrays, x_lib \in LibOutcomes :
           algCall = AlgCallRec("compute_closeness", x_src, x_dst, <<>>, 0, 0, 0, 0, <<>>, x_lib, FALSE)
    \/ \E x_src \in Arrays, x_dst \in Arrays, x_lib \in LibOutcomes :
           algCall = AlgCallRec("compute_eigenvector", x_src, x_dst, <<>>, 0, 0, 0, 0, <<>>, x_lib, FALSE)
    \/ \E x_src \in Arrays, x_dst \in Arrays, x_lib \in LibOutcomes :
           algCall = AlgCallRec("compute_katz", x_src, x_dst, <<>>, 0, 0, 0, 0, <<>>, x_lib, FALSE)
    \/ \E x_src \in Arrays, x_dst \in Arrays, x_lib \in LibOutcomes :
           algCall = AlgCallRec("compute_harmonic", x_src, x_dst, <<>>, 0, 0, 0, 0, <<>>, x_lib, FALSE)
    \/ \E x_src \in Arrays, x_dst \in Arrays, x_node \in Sources :
           algCall = AlgCallRec("compute_node_degree", x_src, x_dst, <<>>, x_node, 0, 0, 0, <<>>, "Ok", FALSE)
    \/ \E x_src \in Arrays, x_dst \in Arrays :
           algCall = AlgCallRec("compute_voterank", x_src, x_dst, <<>>, 0, 0, 0, 0, <<>>, "Ok", FALSE)
    \/ \E x_src \in Arrays, x_dst \in Arrays, x_lib \in LibOutcomes :
           algCall = AlgCallRec("compute_local_reaching", x_src, x_dst, <<>>, 0, 0, 0, 0, <<>>, x_lib, FALSE)
    \/ \E x_src \in Arrays, x_dst \in Arrays, x_lib \in LibOutcomes :
           algCall = AlgCallRec("compute_laplacian", x_src, x_dst, <<>>, 0, 0, 0, 0, <<>>, x_lib, FALSE)

\* A call of a function of algorithms/community.rs over the input universe.
CommunityCalls ==
    \/ \E x_src \in Arrays, x_dst \in Arrays, x_lib \in LibOutcomes :
           algCall = AlgCallRec("compute_louvain", x_src, x_dst, <<>>, 0, 0, 0, 0, <<>>, x_lib, FALSE)
    \/ \E x_src \in Arrays, x_dst \in Arrays :
           algCall = AlgCallRec("compute_connected_components", x_src, x_dst, <<>>, 0, 0, 0, 0, <<>>, "Ok", FALSE)
    \/ \E x_src \in Arrays, x_dst \in Arrays, x_lib \in LibOutcomes :
           algCall = AlgCallRec("compute_label_propagation", x_src, x_dst, <<>>, 0, 0, 0, 0, <<>>, x_lib, FALSE)
    \/ \E x_src \in Arrays, x_dst \in Arrays, x_n \in TargetCounts, x_lib \in LibOutcomes :
           algCall = AlgCallRec("compute_girvan_newman", x_src, x_dst, <<>>, 0, 0, x_n, 0, <<>>, x_lib, FALSE)
    \/ \E x_src \in Arrays, x_dst \in Arrays, x_n \in Counts, x_lib \in LibOutcomes :
           algCall = AlgCallRec("compute_spectral_clustering", x_src, x_dst, <<>>, 0, 0, x_n, 0, <<>>, x_lib, FALSE)
    \/ \E x_src \in Arrays, x_dst \in Arrays, x_n \in Counts, x_lib \in LibOutcomes :
           algCall = AlgCallRec("compute_infomap", x_src, x_dst, <<>>, 0, 0, x_n, 0, <<>>, x_lib, FALSE)

\* A call of a function of algorithms/links.rs over the input universe.
LinksCalls ==
    \/ \E x_src \in Arrays, x_dst \in Arrays :
           algCall = AlgCallRec("compute_jaccard", x_src, x_dst, <<>>, 0, 0, 0, 0, <<>>, "Ok", FALSE)
    \/ \E x_src \in Arrays, x_dst \in Arrays :
           algCall = AlgCallRec("compute_adamic_adar", x_src, x_dst, <<>>, 0, 0, 0, 0, <<>>, "Ok", FALSE)
    \/ \E x_src \in Arrays, x_dst \in Arrays :
           algCall = AlgCallRec("compute_preferential_attachment", x_src, x_dst, <<>>, 0, 0, 0, 0, <<>>, "Ok", FALSE)
    \/ \E x_src \in Arrays, x_dst \in Arrays :
           algCall = AlgCallRec("compute_resource_allocation", x_src, x_dst, <<>>, 0, 0, 0, 0, <<>>, "Ok", FALSE)

\* A call of a function of algorithms/metrics.rs over the input universe.
MetricsCalls ==
    \/ \E x_src \in PathArrays, x_dst \in PathArrays :
           algCall = AlgCallRec("compute_diameter", x_src, x_dst, <<>>, 0, 0, 0, 0, <<>>, "Ok", FALSE)
    \/ \E x_src \in PathArrays, x_dst \in PathArrays :
           algCall = AlgCallRec("compute_radius", x_src, x_dst, <<>>, 0, 0, 0, 0, <<>>, "Ok", FALSE)
    \/ \E x_src \in Arrays, x_dst \in Arrays :
           algCall = AlgCallRec("compute_avg_clustering", x_src, x_dst, <<>>, 0, 0, 0, 0, <<>>, "Ok", FALSE)
    \/ \E x_src \in PathArrays, x_dst \in PathArrays, x_lib \in {"Ok", "None"} :
           /\ (Len(x_src) = Len(x_dst) /\ Cardinality(NodeSet(x_src, x_dst)) # 1) => x_lib = "Ok"
           /\ algCall = AlgCallRec("compute_avg_path_length", x_src, x_dst, <<>>, 0, 0, 0, 0, <<>>, x_lib, FALSE)
    \/ \E x_src \in Arrays, x_dst \in Arrays :
           algCall = AlgCallRec("compute_transitivity", x_src, x_dst, <<>>, 0, 0, 0, 0, <<>>, "Ok", FALSE)
    \/ \E x_src \in Arrays, x_dst \in Arrays :
           algCall = AlgCallRec("compute_triangle_count", x_src, x_dst, <<>>, 0, 0, 0, 0, <<>>, "Ok", FALSE)
    \/ \E x_src \in Arrays, x_dst \in Arrays :
           algCall = AlgCallRec("compute_assortativity", x_src, x_dst, <<>>, 0, 0, 0, 0, <<>>, "Ok", FALSE)
    \/ \E x_src \in PathArrays, x_dst \in PathArrays, x_directed \in BOOLEAN :
           algCall = AlgCallRec("compute_graph_density", x_src, x_dst, <<>>, 0, 0, 0, 0, <<>>, "Ok", x_directed)

\* A call of a function of algorithms/mst.rs over the input universe.
MstCalls ==
    \/ \E x_src \in PathArrays, x_dst \in PathArrays, x_weights \in WeightArrays, x_lib \in LibOutcomes :
           algCall = AlgCallRec("compute_prim_mst", x_src, x_dst, x_weights, 0, 0, 0, 0, <<>>, x_lib, FALSE)
    \/ \E x_src \in PathArrays, x_dst \in PathArrays, x_weights \in WeightArrays, x_lib \in LibOutcomes :
           algCall = AlgCallRec("compute_kruskal_mst", x_src, x_dst, x_weights, 0, 0, 0, 0, <<>>, x_lib, FALSE)

\* A call of a function of algorithms/approximation.rs over the input universe.
ApproximationCalls ==
    \/ \E x_src \in Arrays, x_dst \in Arrays :
           algCall = AlgCallRec("compute_max_clique", x_src, x_dst, <<>>, 0, 0, 0, 0, <<>>, "Ok", FALSE)
    \/ \E x_src \in Arrays, x_dst \in Arrays :
           algCall = AlgCallRec("compute_independent_set", x_src, x_dst, <<>>, 0, 0, 0, 0, <<>>, "Ok", FALSE)
    \/ \E x_src \in Arrays, x_dst \in Arrays :
           algCall = AlgCallRec("compute_vertex_cover", x_src, x_dst, <<>>, 0, 0, 0, 0, <<>>, "Ok", FALSE)
    \/ \E x_src \in Arrays, x_dst \in Arrays, x_weights \in WeightArrays, x_lib \in LibOutcomes :
           algCall = AlgCallRec("compute_tsp", x_src, x_dst, x_weights, 0, 0, 0, 0, <<>>, x_lib, FALSE)

\* A call of a function of algorithms/parallel.rs over the input universe.
ParallelCalls ==
    \/ \E x_src \in Arrays, x_dst \in Arrays, x_weights \in WeightArrays :
           algCall = AlgCallRec("compute_pagerank_parallel", x_src, x_dst, x_weights, 0, 0, 0, 0, <<>>, "Ok", FALSE)
    \/ \E x_src \in Arrays, x_dst \in Arrays, x_node \in Sources :
           algCall = AlgCallRec("compute_bfs_parallel", x_src, x_dst, <<>>, x_node, 0, 0, 0, <<>>, "Ok", FALSE)
    \/ \E x_src \in Arrays, x_dst \in Arrays, x_node \in Sources :
           algCall = AlgCallRec("compute_shortest_paths_parallel", x_src, x_dst, <<>>, x_node, 0, 0, 0, <<>>, "Ok", FALSE)
    \/ \E x_src \in Arrays, x_dst \in Arrays :
           algCall = AlgCallRec("compute_components_parallel", x_src, x_dst, <<>>, 0, 0, 0, 0, <<>>, "Ok", FALSE)
    \/ \E x_src \in Arrays, x_dst \in Arrays :
           algCall = AlgCallRec("compute_clustering_parallel", x_src, x_dst, <<>>, 0, 0, 0, 0, <<>>, "Ok", FALSE)
    \/ \E x_src \in Arrays, x_dst \in Arrays :
           algCall = AlgCallRec("compute_triangles_parallel", x_src, x_dst, <<>>, 0, 0, 0, 0, <<>>, "Ok", FALSE)

\* A call of a function of algorithms/personalized.rs over the input universe.
PersonalizedCalls ==
    \/ \E x_src \in Arrays, x_dst \in Arrays, x_damping \in Dampings, x_n \in Counts, x_lib \in LibOutcomes :
           algCall = AlgCallRec("compute_personalized_pagerank", x_src, x_dst, <<>>, 0, 0, x_n, x_damping, <<>>, x_lib, FALSE)

\* A call of a function of algorithms/subgraphs.rs over the input universe.
SubgraphsCalls ==
    \/ \E x_src \in Arrays, x_dst \in Arrays, x_node \in Sources, x_n \in Counts, x_lib \in LibOutcomes :
           algCall = AlgCallRec("compute_ego_graph", x_src, x_dst, <<>>, x_node, 0, x_n, 0, <<>>, x_lib, FALSE)
    \/ \E x_src \in Arrays, x_dst \in Arrays, x_node \in Sources, x_n \in Counts :
           algCall = AlgCallRec("compute_k_hop_neighbors", x_src, x_dst, <<>>, x_node, 0, x_n, 0, <<>>, "Ok", FALSE)
    \/ \E x_src \in Arrays, x_dst \in Arrays, x_node_ids \in NodeLists, x_lib \in SubgraphOutcomes :
           algCall = AlgCallRec("compute_induced_subgraph", x_src, x_dst, <<>>, 0, 0, 0, 0, x_node_ids, x_lib, FALSE)

GeneratorsCalls ==
    \/ \E x_n \in GenSizes, x_p \in Probabilities, x_seed \in Seeds, x_lib \in GenOutcomes :
           algCall = AlgCallRec("generate_erdos_renyi", <<>>, <<>>, <<>>, x_seed, 0, x_n, x_p, <<>>, x_lib, FALSE)
    \/ \E x_n \in GenSizes, x_m \in GenSizes, x_seed \in Seeds, x_lib \in GenOutcomes :
           algCall = AlgCallRec("generate_barabasi_albert", <<>>, <<>>, <<>>, x_seed, x_m, x_n, 0, <<>>, x_lib, FALSE)
    \/ \E x_n \in GenSizes, x_k \in GenSizes, x_beta \in Probabilities, x_seed \in Seeds,
          x_lib \in GenOutcomes :
           algCall = AlgCallRec("generate_watts_strogatz", <<>>, <<>>, <<>>, x_seed, x_k, x_n, x_beta, <<>>, x_lib, FALSE)

\* The called function, applied to the arguments of the call.
AlgRun(c) ==
    CASE c.alg = "compute_dijkstra" -> compute_dijkstra(c.src, c.dst, c.node, c.lib)
      [] c.alg = "compute_bfs" -> compute_bfs(c.src, c.dst, c.node)
      [] c.alg = "compute_dfs" -> compute_dfs(c.src, c.dst, c.node)
      [] c.alg = "compute_shortest_distance" -> compute_shortest_distance(c.src, c.dst, c.node, c.target, c.lib)
      [] c.alg = "compute_bellman_ford" -> compute_bellman_ford(c.src, c.dst, c.weights, c.node)
      [] c.alg = "compute_floyd_warshall" -> compute_floyd_warshall(c.src, c.dst, c.weights, c.lib)
      [] c.alg = "compute_pagerank" -> compute_pagerank(c.src, c.dst, c.lib)
      [] c.alg = "compute_degree" -> compute_degree(c.src, c.dst, c.directed, c.lib)
      [] c.alg = "compute_betweenness" -> compute_betweenness(c.src, c.dst, c.lib)
      [] c.alg = "compute_closeness" -> compute_closeness(c.src, c.dst, c.lib)
      [] c.alg = "compute_eigenvector" -> compute_eigenvector(c.src, c.dst, c.lib)
      [] c.alg = "compute_katz" -> compute_katz(c.src, c.dst, c.lib)
      [] c.alg = "compute_harmonic" -> compute_harmonic(c.src, c.dst, c.lib)
      [] c.alg = "compute_node_degree" -> compute_node_degree(c.src, c.dst, c.node)
      [] c.alg = "compute_voterank" -> compute_voterank(c.src, c.dst)
      [] c.alg = "compute_local_reaching" -> compute_local_reaching(c.src, c.dst, c.lib)
      [] c.alg = "compute_laplacian" -> compute_laplacian(c.src, c.dst, c.lib)
      [] c.alg = "compute_louvain" -> compute_louvain(c.src, c.dst, c.lib)
      [] c.alg = "compute_connected_components" -> compute_connected_components(c.src, c.dst)
      [] c.alg = "compute_label_propagation" -> compute_label_propagation(c.src, c.dst, c.lib)
      [] c.alg = "compute_girvan_newman" -> compute_girvan_newman(c.src, c.dst, c.n, c.lib)
      [] c.alg = "compute_spectral_clustering" -> compute_spectral_clustering(c.src, c.dst, c.n, c.lib)
      [] c.alg = "compute_infomap" -> compute_infomap(c.src, c.dst, c.n, c.lib)
      [] c.alg = "compute_jaccard" -> compute_jaccard(c.src, c.dst)
      [] c.alg = "compute_adamic_adar" -> compute_adamic_adar(c.src, c.dst)
      [] c.alg = "compute_preferential_attachment" -> compute_preferential_attachment(c.src, c.dst)
      [] c.alg = "compute_resource_allocation" -> compute_resource_allocation(c.src, c.dst)
      [] c.alg = "compute_diameter" -> compute_diameter(c.src, c.dst)
      [] c.alg = "compute_radius" -> compute_radius(c.src, c.dst)
      [] c.alg = "compute_avg_clustering" -> compute_avg_clustering(c.src, c.dst)
      [] c.alg = "compute_avg_path_length" -> compute_avg_path_length(c.src, c.dst, c.lib)
      [] c.alg = "compute_transitivity" -> compute_transitivity(c.src, c.dst)
      [] c.alg = "compute_triangle_count" -> compute_triangle_count(c.src, c.dst)
      [] c.alg = "compute_assortativity" -> compute_assortativity(c.src, c.dst)
      [] c.alg = "compute_graph_density" -> compute_graph_density(c.src, c.dst, c.directed)
      [] c.alg = "compute_prim_mst" -> compute_prim_mst(c.src, c.dst, c.weights, c.lib)
      [] c.alg = "compute_kruskal_mst" -> compute_kruskal_mst(c.src, c.dst, c.weights, c.lib)
      [] c.alg = "compute_max_clique" -> compute_max_clique(c.src, c.dst)
      [] c.alg = "compute_independent_set" -> compute_independent_set(c.src, c.dst)
      [] c.alg = "compute_vertex_cover" -> compute_vertex_cover(c.src, c.dst)
      [] c.alg = "compute_tsp" -> compute_tsp(c.src, c.dst, c.weights, c.lib)
      [] c.alg = "compute_pagerank_parallel" -> compute_pagerank_parallel(c.src, c.dst, c.weights)
      [] c.alg = "compute_bfs_parallel" -> compute_bfs_parallel(c.src, c.dst, c.node)
      [] c.alg = "compute_shortest_paths_parallel" -> compute_shortest_paths_parallel(c.src, c.dst, c.node)
      [] c.alg = "compute_components_parallel" -> compute_components_parallel(c.src, c.dst)
      [] c.alg = "compute_clustering_parallel" -> compute_clustering_parallel(c.src, c.dst)
      [] c.alg = "compute_triangles_parallel" -> compute_triangles_parallel(c.src, c.dst)
      [] c.alg = "compute_personalized_pagerank" -> compute_personalized_pagerank(c.src, c.dst, c.damping, c.n, c.lib)
      [] c.alg = "compute_ego_graph" -> compute_ego_graph(c.src, c.dst, c.node, c.n, c.lib)
      [] c.alg = "compute_k_hop_neighbors" -> compute_k_hop_neighbors(c.src, c.dst, c.node, c.n)
      [] c.alg = "compute_induced_subgraph" -> compute_induced_subgraph(c.src, c.dst, c.node_ids, c.lib)
      [] c.alg = "generate_erdos_renyi" -> generate_erdos_renyi(c.n, c.damping, c.node, c.lib)
      [] c.alg = "generate_barabasi_albert" -> generate_barabasi_albert(c.n, c.target, c.node, c.lib)
      [] c.alg = "generate_watts_strogatz" -> generate_watts_strogatz(c.n, c.target, c.damping, c.node, c.lib)

(***************************************************************************)
(* ffi/*.rs: the C entry points.  LAST_ERROR is one process-wide atomic    *)
(* pointer to the C string of the last error.  heap lists the C strings    *)
(* made by CString::into_raw, in the order they were made: a pointer is a  *)
(* position of heap, and frees counts the times the string was dropped.    *)
(***************************************************************************)
\* std::ptr::null_mut()
Null == 0

\* Entry-point calls made in one behaviour of SpecFfi, onager_last_error()
\* not counted.
MaxFfiCalls == 2

\* A call of an entry point: valid is FALSE when a pointer argument is null
\* (or the name is not UTF-8); call holds the arguments handed on to the
\* function of graph.rs or algorithms/; n is what the library alone decides
\* of the answer: the number of rows (edges generated, pairs scored, nodes
\* chosen), or the tenths of a coefficient.
FfiCallRec(fn, valid, call, n) == [n |-> n, fn |-> fn, valid |-> valid, call |-> call]

NoFfiCall == FfiCallRec("none", TRUE, NoCall, 0)

\* What an entry point does after clear_last_error(): err is TRUE when it
\* goes on to set_last_error(msg); value is what it returns, <<i>> for an
\* integer and the fraction <<num, den>> for a float; reg is the registry
\* it leaves; str is the string it hands the caller as a new C string
\* (<<>> when it hands none).
FfiOut(err, msg, value, reg, str) ==
    [reg |-> reg, msg |-> msg, err |-> err, value |-> value, str |-> str]

\* e.to_string() of an OnagerError: the variant's prefix and its payload.
to_string(e) ==
    IF "msg" \in DOMAIN e
    THEN (IF e.kind = "NodeNotFound" THEN <<e.kind>> \o e.val ELSE <<e.kind, e.msg>> \o e.val)
    ELSE IF e.kind \in {"GraphNotFound", "GraphAlreadyExists"} THEN <<e.kind, e.name>>
    ELSE IF e.kind = "NodeNotFound" THEN <<e.kind, e.id>>
    ELSE <<e.kind, "Node already exists", e.id>>

onager_create_graph(reg, c) ==
    IF ~c.valid THEN FfiOut(TRUE, <<"", "Invalid UTF-8 in graph name">>, <<-1>>, reg, <<>>)
    ELSE LET r == create_graph(reg, c.call.name, c.call.directed)
         IN IF r.res.kind = "Ok" THEN FfiOut(FALSE, <<>>, <<0>>, r.reg, <<>>)
            ELSE FfiOut(TRUE, to_string(r.res), <<-1>>, reg, <<>>)

onager_drop_graph(reg, c) ==
    IF ~c.valid THEN FfiOut(TRUE, <<"", "Invalid UTF-8 in graph name">>, <<-1>>, reg, <<>>)
    ELSE LET r == drop_graph(reg, c.call.name)
         IN IF r.res.kind = "Ok" THEN FfiOut(FALSE, <<>>, <<0>>, r.reg, <<>>)
            ELSE FfiOut(TRUE, to_string(r.res), <<-1>>, reg, <<>>)

\* serde_json::to_string(&graphs) of the names, handed out by into_raw().
onager_list_graphs(reg, c) ==
    FfiOut(FALSE, <<>>, <<>>, reg, <<"JSON", list_graphs(reg).res.names>>)

onager_add_node(reg, c) ==
    IF ~c.valid THEN FfiOut(TRUE, <<"", "Invalid UTF-8 in graph name">>, <<-1>>, reg, <<>>)
    ELSE LET r == add_node(reg, c.call.name, c.call.src)
         IN IF r.res.kind = "Ok" THEN FfiOut(FALSE, <<>>, <<0>>, r.reg, <<>>)
            ELSE FfiOut(TRUE, to_string(r.res), <<-1>>, reg, <<>>)

onager_add_edge(reg, c) ==
    IF ~c.valid THEN FfiOut(TRUE, <<"", "Invalid UTF-8 in graph name">>, <<-1>>, reg, <<>>)
    ELSE LET r == add_edge(reg, c.call.name, c.call.src, c.call.dst, c.call.weight)
         IN IF r.res.kind = "Ok" THEN FfiOut(FALSE, <<>>, <<0>>, r.reg, <<>>)
            ELSE FfiOut(TRUE, to_string(r.res), <<-1>>, reg, <<>>)

onager_node_count(reg, c) ==
    IF ~c.valid THEN FfiOut(TRUE, <<"", "Invalid UTF-8 in graph name">>, <<-1>>, reg, <<>>)
    ELSE LET r == node_count(reg, c.call.name)
         IN IF r.res.kind = "Ok" THEN FfiOut(FALSE, <<>>, <<r.res.count>>, reg, <<>>)
            ELSE FfiOut(TRUE, to_string(r.res), <<-1>>, reg, <<>>)

onager_edge_count(reg, c) ==
    IF ~c.valid THEN FfiOut(TRUE, <<"", "Invalid UTF-8 in graph name">>, <<-1>>, reg, <<>>)
    ELSE LET r == edge_count(reg, c.call.name)
         IN IF r.res.kind = "Ok" THEN FfiOut(FALSE, <<>>, <<r.res.count>>, reg, <<>>)
            ELSE FfiOut(TRUE, to_string(r.res), <<-1>>, reg, <<>>)

onager_graph_node_in_degree(reg, c) ==
    IF ~c.valid THEN FfiOut(TRUE, <<"", "Invalid UTF-8 in graph name">>, <<-1>>, reg, <<>>)
    ELSE LET r == get_node_in_degree(reg, c.call.name, c.call.src)
         IN IF r.res.kind = "Ok" THEN FfiOut(FALSE, <<>>, <<r.res.count>>, reg, <<>>)
            ELSE FfiOut(TRUE, to_string(r.res), <<-1>>, reg, <<>>)

onager_graph_node_out_degree(reg, c) ==
    IF ~c.valid THEN FfiOut(TRUE, <<"", "Invalid UTF-8 in graph name">>, <<-1>>, reg, <<>>)
    ELSE LET r == get_node_out_degree(reg, c.call.name, c.call.src)
         IN IF r.res.kind = "Ok" THEN FfiOut(FALSE, <<>>, <<r.res.count>>, reg, <<>>)
            ELSE FfiOut(TRUE, to_string(r.res), <<-1>>, reg, <<>>)

\* set_last_error(msg) of a literal, and the sentinel.
null_pointer(reg, msg, sentinel) == FfiOut(TRUE, <<"", msg>>, sentinel, reg, <<>>)

\* match result { Ok(..) => value, Err(e) => { set_last_error(&e.to_string());
\* sentinel } }
match_result(reg, r, value, sentinel) ==
    IF r.kind = "Ok" THEN FfiOut(FALSE, <<>>, value, reg, <<>>)
    ELSE FfiOut(TRUE, to_string(r), sentinel, reg, <<>>)

\* ffi/traversal.rs.  The value is result.node_ids.len(), result.order.len()
\* or result.src_nodes.len(); Ok(d) => d is the distance as the fraction d/1.
ffi_traversal(reg, c) ==
    LET a == c.call
    IN IF ~c.valid
       THEN null_pointer(reg, "Null pointer",
                         IF c.fn = "onager_compute_shortest_distance" THEN NaN ELSE <<-1>>)
       ELSE CASE c.fn = "onager_compute_dijkstra" ->
                      LET r == compute_dijkstra(a.src, a.dst, a.node, a.lib)
                      IN match_result(reg, r, <<Cardinality(DOMAIN r.val)>>, <<-1>>)
              [] c.fn = "onager_compute_bfs" ->
                      LET r == compute_bfs(a.src, a.dst, a.node)
                      IN match_result(reg, r, <<Cardinality(r.val)>>, <<-1>>)
              [] c.fn = "onager_compute_dfs" ->
                      LET r == compute_dfs(a.src, a.dst, a.node)
                      IN match_result(reg, r, <<Cardinality(r.val)>>, <<-1>>)
              [] c.fn = "onager_compute_bellman_ford" ->
                      LET r == compute_bellman_ford(a.src, a.dst, a.weights, a.node)
                      IN match_result(reg, r, <<Cardinality(DOMAIN r.val)>>, <<-1>>)
              [] c.fn = "onager_compute_floyd_warshall" ->
                      LET r == compute_floyd_warshall(a.src, a.dst, a.weights, a.lib)
                      IN match_result(reg, r, <<Cardinality(r.val)>>, <<-1>>)
              [] c.fn = "onager_compute_shortest_distance" ->
                      LET r == compute_shortest_distance(a.src, a.dst, a.node, a.target, a.lib)
                      IN match_result(reg, r, <<r.val[1], 1>>, NaN)

\* ffi/centrality.rs.  result.node_ids holds one id per node of the graph,
\* for voterank the seeds the library chose (c.n of them).
ffi_centrality(reg, c) ==
    LET a == c.call
    IN IF ~c.valid
       THEN null_pointer(reg, IF c.fn = "onager_compute_pagerank" THEN "Null pointer for src or dst" ELSE "Null pointer",
                         <<-1>>)
       ELSE CASE c.fn = "onager_compute_pagerank" ->
                      LET r == compute_pagerank(a.src, a.dst, a.lib)
                      IN match_result(reg, r, <<Cardinality(NodeSet(a.src, a.dst))>>, <<-1>>)
              [] c.fn = "onager_compute_pagerank_parallel" ->
                      LET r == compute_pagerank_parallel(a.src, a.dst, a.weights)
                      IN match_result(reg, r, <<Cardinality(NodeSet(a.src, a.dst))>>, <<-1>>)
              [] c.fn = "onager_compute_degree" ->
                      LET r == compute_degree(a.src, a.dst, a.directed, a.lib)
                      IN match_result(reg, r, <<Len(r.val)>>, <<-1>>)
              [] c.fn = "onager_compute_node_in_degree" ->
                      LET r == compute_node_degree(a.src, a.dst, a.node)
                      IN match_result(reg, r, <<r.val[1]>>, <<-1>>)
              [] c.fn = "onager_compute_node_out_degree" ->
                      LET r == compute_node_degree(a.src, a.dst, a.node)
                      IN match_result(reg, r, <<r.val[2]>>, <<-1>>)
              [] c.fn = "onager_compute_betweenness" ->
                      LET r == compute_betweenness(a.src, a.dst, a.lib)
                      IN match_result(reg, r, <<Cardinality(NodeSet(a.src, a.dst))>>, <<-1>>)
              [] c.fn = "onager_compute_closeness" ->
                      LET r == compute_closeness(a.src, a.dst, a.lib)
                      IN match_result(reg, r, <<Cardinality(NodeSet(a.src, a.dst))>>, <<-1>>)
              [] c.fn = "onager_compute_eigenvector" ->
                      LET r == compute_eigenvector(a.src, a.dst, a.lib)
                      IN match_result(reg, r, <<Cardinality(NodeSet(a.src, a.dst))>>, <<-1>>)
              [] c.fn = "onager_compute_katz" ->
                      LET r == compute_katz(a.src, a.dst, a.lib)
                      IN match_result(reg, r, <<Cardinality(NodeSet(a.src, a.dst))>>, <<-1>>)
              [] c.fn = "onager_compute_harmonic" ->
                      LET r == compute_harmonic(a.src, a.dst, a.lib)
                      IN match_result(reg, r, <<Cardinality(NodeSet(a.src, a.dst))>>, <<-1>>)
              [] c.fn = "onager_compute_voterank" ->
                      LET r == compute_voterank(a.src, a.dst)
                      IN match_result(reg, r, <<IF r.empty THEN 0 ELSE c.n>>, <<-1>>)
              [] c.fn = "onager_compute_local_reaching" ->
                      LET r == compute_local_reaching(a.src, a.dst, a.lib)
                      IN match_result(reg, r, <<Cardinality(NodeSet(a.src, a.dst))>>, <<-1>>)
              [] c.fn = "onager_compute_laplacian" ->
                      LET r == compute_laplacian(a.src, a.dst, a.lib)
                      IN match_result(reg, r, <<Cardinality(NodeSet(a.src, a.dst))>>, <<-1>>)

\* ffi/community.rs.  result.node_ids holds one id per node of the graph:
\* the communities and components of the library cover the nodes.
ffi_community(reg, c) ==
    LET a == c.call
    IN IF ~c.valid
       THEN null_pointer(reg, "Null pointer",
                         <<-1>>)
       ELSE CASE c.fn = "onager_compute_louvain" ->
                      LET r == compute_louvain(a.src, a.dst, a.lib)
                      IN match_result(reg, r, <<Cardinality(NodeSet(a.src, a.dst))>>, <<-1>>)
              [] c.fn = "onager_compute_connected_components" ->
                      LET r == compute_connected_components(a.src, a.dst)
                      IN match_result(reg, r, <<Cardinality(NodeSet(a.src, a.dst))>>, <<-1>>)
              [] c.fn = "onager_compute_label_propagation" ->
                      LET r == compute_label_propagation(a.src, a.dst, a.lib)
                      IN match_result(reg, r, <<Len(r.val)>>, <<-1>>)
              [] c.fn = "onager_compute_girvan_newman" ->
                      LET r == compute_girvan_newman(a.src, a.dst, a.n, a.lib)
                      IN match_result(reg, r, <<Cardinality(NodeSet(a.src, a.dst))>>, <<-1>>)
              [] c.fn = "onager_compute_spectral_clustering" ->
                      LET r == compute_spectral_clustering(a.src, a.dst, a.n, a.lib)
                      IN match_result(reg, r, <<Cardinality(NodeSet(a.src, a.dst))>>, <<-1>>)
              [] c.fn = "onager_compute_infomap" ->
                      LET r == compute_infomap(a.src, a.dst, a.n, a.lib)
                      IN match_result(reg, r, <<Cardinality(NodeSet(a.src, a.dst))>>, <<-1>>)

\* ffi/links.rs.  result.node1 holds the pairs the library scored (c.n of
\* them).  algorithms::compute_common_neighbors is not in src/: its result is
\* an input of the call, Ok or the error of kind a.lib.
ffi_links(reg, c) ==
    LET a == c.call
    IN IF ~c.valid
       THEN null_pointer(reg, "Null pointer",
                         <<-1>>)
       ELSE CASE c.fn = "onager_compute_jaccard" ->
                      LET r == compute_jaccard(a.src, a.dst)
                      IN match_result(reg, r, <<IF r.empty THEN 0 ELSE c.n>>, <<-1>>)
              [] c.fn = "onager_compute_adamic_adar" ->
                      LET r == compute_adamic_adar(a.src, a.dst)
                      IN match_result(reg, r, <<IF r.empty THEN 0 ELSE c.n>>, <<-1>>)
              [] c.fn = "onager_compute_preferential_attachment" ->
                      LET r == compute_preferential_attachment(a.src, a.dst)
                      IN match_result(reg, r, <<IF r.empty THEN 0 ELSE c.n>>, <<-1>>)
              [] c.fn = "onager_compute_resource_allocation" ->
                      LET r == compute_resource_allocation(a.src, a.dst)
                      IN match_result(reg, r, <<IF r.empty THEN 0 ELSE c.n>>, <<-1>>)
              [] c.fn = "onager_compute_common_neighbors" ->
                      LET r == IF a.lib = "Ok" THEN AlgRes("Ok", "", c.n = 0) ELSE AlgErr(a.lib, "")
                      IN match_result(reg, r, <<IF r.empty THEN 0 ELSE c.n>>, <<-1>>)

\* ffi/metrics.rs.  Ok(d) => d, Ok(v) => v: the value as it is.  The
\* clustering coefficient, the transitivity and the assortativity are
\* numbers of the library, c.n tenths.
ffi_metrics(reg, c) ==
    LET a == c.call
    IN IF ~c.valid
       THEN null_pointer(reg, "Null pointer",
                         IF c.fn \in {"onager_compute_diameter", "onager_compute_radius", "onager_compute_triangle_count"}
                               THEN <<-1>> ELSE NaN)
       ELSE CASE c.fn = "onager_compute_diameter" ->
                      LET r == compute_diameter(a.src, a.dst)
                      IN match_result(reg, r, r.val, <<-1>>)
              [] c.fn = "onager_compute_radius" ->
                      LET r == compute_radius(a.src, a.dst)
                      IN match_result(reg, r, r.val, <<-1>>)
              [] c.fn = "onager_compute_avg_clustering" ->
                      LET r == compute_avg_clustering(a.src, a.dst)
                      IN match_result(reg, r, <<c.n, 10>>, NaN)
              [] c.fn = "onager_compute_avg_path_length" ->
                      LET r == compute_avg_path_length(a.src, a.dst, a.lib)
                      IN match_result(reg, r, r.val[1], NaN)
              [] c.fn = "onager_compute_transitivity" ->
                      LET r == compute_transitivity(a.src, a.dst)
                      IN match_result(reg, r, <<c.n, 10>>, NaN)
              [] c.fn = "onager_compute_triangle_count" ->
                      LET r == compute_triangle_count(a.src, a.dst)
                      IN match_result(reg, r, <<Cardinality(NodeSet(a.src, a.dst))>>, <<-1>>)
              [] c.fn = "onager_compute_assortativity" ->
                      LET r == compute_assortativity(a.src, a.dst)
                      IN match_result(reg, r, <<c.n, 10>>, NaN)
              [] c.fn = "onager_compute_graph_density" ->
                      LET r == compute_graph_density(a.src, a.dst, a.directed)
                      IN match_result(reg, r, r.val, NaN)

\* ffi/mst.rs.  let n = result.src_nodes.len(): the edges of the tree.
ffi_mst(reg, c) ==
    LET a == c.call
    IN IF ~c.valid
       THEN null_pointer(reg, "Null pointer",
                         <<-1>>)
       ELSE CASE c.fn = "onager_compute_prim_mst" ->
                      LET r == compute_prim_mst(a.src, a.dst, a.weights, a.lib)
                      IN match_result(reg, r, <<Len(r.val[1])>>, <<-1>>)
              [] c.fn = "onager_compute_kruskal_mst" ->
                      LET r == compute_kruskal_mst(a.src, a.dst, a.weights, a.lib)
                      IN match_result(reg, r, <<Len(r.val[1])>>, <<-1>>)

\* ffi/approximation.rs.  result.node_ids (result.tour) holds the nodes the
\* library chose, c.n of them.
ffi_approximation(reg, c) ==
    LET a == c.call
    IN IF ~c.valid
       THEN null_pointer(reg, "Null pointer",
                         <<-1>>)
       ELSE CASE c.fn = "onager_compute_max_clique" ->
                      LET r == compute_max_clique(a.src, a.dst)
                      IN match_result(reg, r, <<IF r.empty THEN 0 ELSE c.n>>, <<-1>>)
              [] c.fn = "onager_compute_independent_set" ->
                      LET r == compute_independent_set(a.src, a.dst)
                      IN match_result(reg, r, <<IF r.empty THEN 0 ELSE c.n>>, <<-1>>)
              [] c.fn = "onager_compute_vertex_cover" ->
                      LET r == compute_vertex_cover(a.src, a.dst)
                      IN match_result(reg, r, <<IF r.empty THEN 0 ELSE c.n>>, <<-1>>)
              [] c.fn = "onager_compute_tsp" ->
                      LET r == compute_tsp(a.src, a.dst, a.weights, a.lib)
                      IN match_result(reg, r, <<IF r.empty THEN 0 ELSE c.n>>, <<-1>>)

\* ffi/parallel.rs.  The value is result.order.len() or
\* result.node_ids.len(), one id per node but for the two that start from a
\* source.
ffi_parallel(reg, c) ==
    LET a == c.call
    IN IF ~c.valid
       THEN null_pointer(reg, "Null pointer",
                         <<-1>>)
       ELSE CASE c.fn = "onager_compute_bfs_parallel" ->
                      LET r == compute_bfs_parallel(a.src, a.dst, a.node)
                      IN match_result(reg, r, <<Cardinality(r.val)>>, <<-1>>)
              [] c.fn = "onager_compute_shortest_paths_parallel" ->
                      LET r == compute_shortest_paths_parallel(a.src, a.dst, a.node)
                      IN match_result(reg, r, <<Len(r.val)>>, <<-1>>)
              [] c.fn = "onager_compute_components_parallel" ->
                      LET r == compute_components_parallel(a.src, a.dst)
                      IN match_result(reg, r, <<Cardinality(NodeSet(a.src, a.dst))>>, <<-1>>)
              [] c.fn = "onager_compute_clustering_parallel" ->
                      LET r == compute_clustering_parallel(a.src, a.dst)
                      IN match_result(reg, r, <<Cardinality(NodeSet(a.src, a.dst))>>, <<-1>>)
              [] c.fn = "onager_compute_triangles_parallel" ->
                      LET r == compute_triangles_parallel(a.src, a.dst)
                      IN match_result(reg, r, <<Cardinality(NodeSet(a.src, a.dst))>>, <<-1>>)

\* ffi/personalized.rs.  Null personalization pointers stand for no
\* personalization, only src_ptr and dst_ptr are tested.
ffi_personalized(reg, c) ==
    LET a == c.call
    IN IF ~c.valid
       THEN null_pointer(reg, "Null pointer",
                         <<-1>>)
       ELSE CASE c.fn = "onager_compute_personalized_pagerank" ->
                      LET r == compute_personalized_pagerank(a.src, a.dst, a.damping, a.n, a.lib)
                      IN match_result(reg, r, <<Len(r.val)>>, <<-1>>)

\* ffi/subgraphs.rs.  let n = result.src.len(): the edges kept; for the
\* k-hop neighbours result.node_ids.len().
ffi_subgraphs(reg, c) ==
    LET a == c.call
    IN IF ~c.valid
       THEN null_pointer(reg, "Null pointer",
                         <<-1>>)
       ELSE CASE c.fn = "onager_compute_ego_graph" ->
                      LET r == compute_ego_graph(a.src, a.dst, a.node, a.n, a.lib)
                      IN match_result(reg, r, <<Len(r.val)>>, <<-1>>)
              [] c.fn = "onager_compute_k_hop_neighbors" ->
                      LET r == compute_k_hop_neighbors(a.src, a.dst, a.node, a.n)
                      IN match_result(reg, r, <<Cardinality(r.val)>>, <<-1>>)
              [] c.fn = "onager_compute_induced_subgraph" ->
                      LET r == compute_induced_subgraph(a.src, a.dst, a.node_ids, a.lib)
                      IN match_result(reg, r, <<Len(r.val)>>, <<-1>>)

\* ffi/generators.rs.  No array comes in and no pointer is tested.  let
\* edge_count = result.src.len(): the number of edges the library generated
\* (c.n), none for the graph without edges.
ffi_generators(reg, c) ==
    LET a == c.call
    IN CASE c.fn = "onager_generate_erdos_renyi" ->
                 LET r == generate_erdos_renyi(a.n, a.damping, a.node, a.lib)
                 IN match_result(reg, r, <<IF r.empty THEN 0 ELSE c.n>>, <<-1>>)
         [] c.fn = "onager_generate_barabasi_albert" ->
                 LET r == generate_barabasi_albert(a.n, a.target, a.node, a.lib)
                 IN match_result(reg, r, <<IF r.empty THEN 0 ELSE c.n>>, <<-1>>)
         [] c.fn = "onager_generate_watts_strogatz" ->
                 LET r == generate_watts_strogatz(a.n, a.target, a.damping, a.node, a.lib)
                 IN match_result(reg, r, <<IF r.empty THEN 0 ELSE c.n>>, <<-1>>)

\* The entry points that begin with clear_last_error() and report a failure
\* by set_last_error(msg) and a sentinel: those of ffi/common.rs over the
\* registry, and those of the other files of ffi/ over edge arrays.
FfiRun(reg, c) ==
    CASE c.fn = "onager_create_graph" -> onager_create_graph(reg, c)
      [] c.fn = "onager_drop_graph" -> onager_drop_graph(reg, c)
      [] c.fn = "onager_list_graphs" -> onager_list_graphs(reg, c)
      [] c.fn = "onager_add_node" -> onager_add_node(reg, c)
      [] c.fn = "onager_add_edge" -> onager_add_edge(reg, c)
      [] c.fn = "onager_node_count" -> onager_node_count(reg, c)
      [] c.fn = "onager_edge_count" -> onager_edge_count(reg, c)
      [] c.fn = "onager_graph_node_in_degree" -> onager_graph_node_in_degree(reg, c)
      [] c.fn = "onager_graph_node_out_degree" -> onager_graph_node_out_degree(reg, c)
      [] c.fn \in {"onager_compute_shortest_distance", "onager_compute_dijkstra",
                   "onager_compute_bfs", "onager_compute_dfs", "onager_compute_bellman_ford",
                   "onager_compute_floyd_warshall"} -> ffi_traversal(reg, c)
      [] c.fn \in {"onager_compute_pagerank", "onager_compute_pagerank_parallel",
                   "onager_compute_degree", "onager_compute_node_in_degree",
                   "onager_compute_node_out_degree", "onager_compute_betweenness",
                   "onager_compute_closeness", "onager_compute_eigenvector",
                   "onager_compute_katz", "onager_compute_harmonic",
                   "onager_compute_voterank", "onager_compute_local_reaching",
                   "onager_compute_laplacian"} -> ffi_centrality(reg, c)
      [] c.fn \in {"onager_compute_louvain", "onager_compute_connected_components",
                   "onager_compute_label_propagation", "onager_compute_girvan_newman",
                   "onager_compute_spectral_clustering", "onager_compute_infomap"} -> ffi_community(reg, c)
      [] c.fn \in {"onager_compute_jaccard", "onager_compute_adamic_adar",
                   "onager_compute_preferential_attachment",
                   "onager_compute_resource_allocation", "onager_compute_common_neighbors"} -> ffi_links(reg, c)
      [] c.fn \in {"onager_compute_diameter", "onager_compute_radius",
                   "onager_compute_triangle_count", "onager_compute_avg_clustering",
                   "onager_compute_avg_path_length", "onager_compute_transitivity",
                   "onager_compute_assortativity", "onager_compute_graph_density"} -> ffi_metrics(reg, c)
      [] c.fn \in {"onager_compute_prim_mst", "onager_compute_kruskal_mst"} -> ffi_mst(reg, c)
      [] c.fn \in {"onager_compute_max_clique", "onager_compute_independent_set",
                   "onager_compute_vertex_cover", "onager_compute_tsp"} -> ffi_approximation(reg, c)
      [] c.fn \in {"onager_compute_bfs_parallel", "onager_compute_shortest_paths_parallel",
                   "onager_compute_components_parallel",
                   "onager_compute_clustering_parallel", "onager_compute_triangles_parallel"} -> ffi_parallel(reg, c)
      [] c.fn \in {"onager_compute_personalized_pagerank"} -> ffi_personalized(reg, c)
      [] c.fn \in {"onager_compute_ego_graph", "onager_compute_k_hop_neighbors",
                   "onager_compute_induced_subgraph"} -> ffi_subgraphs(reg, c)
      [] c.fn \in {"onager_generate_erdos_renyi", "onager_generate_barabasi_albert",
                   "onager_generate_watts_strogatz"} -> ffi_generators(reg, c)

\* The calls of the registry entry points over the input universe: graph
\* "a" and its node 1, and once a name that is not UTF-8.
FfiRegistryCalls ==
    {FfiCallRec("onager_create_graph", x[1], Call("create_graph", x[2], FALSE, 0, 0, 0), 0) :
        x \in {<<TRUE, "a">>, <<FALSE, "a">>}}
    \cup {FfiCallRec("onager_drop_graph", TRUE, Call("drop_graph", "a", FALSE, 0, 0, 0), 0),
          FfiCallRec("onager_list_graphs", TRUE, Call("list_graphs", NoName, FALSE, 0, 0, 0), 0),
          FfiCallRec("onager_add_node", TRUE, Call("add_node", "a", FALSE, 1, 0, 0), 0),
          FfiCallRec("onager_add_edge", TRUE, Call("add_edge", "a", FALSE, 1, 1, 1), 0),
          FfiCallRec("onager_node_count", TRUE, Call("node_count", "a", FALSE, 0, 0, 0), 0),
          FfiCallRec("onager_edge_count", TRUE, Call("edge_count", "a", FALSE, 0, 0, 0), 0),
          FfiCallRec("onager_graph_node_in_degree", TRUE,
                     Call("get_node_in_degree", "a", FALSE, 1, 0, 0), 0),
          FfiCallRec("onager_graph_node_out_degree", TRUE,
                     Call("get_node_out_degree", "a", FALSE, 1, 0, 0), 0)}

\* The calls of the entry points over edge arrays, and of a generator: the
\* edge 1-2, the edges 1-2 and 3-3 (two components), and a null pointer
\* (valid = FALSE) once.
FfiArrayCalls ==
    {FfiCallRec(x[1], x[2],
                AlgCallRec("none", x[3][1], x[3][2], <<>>, 0, 0, 0, 0, <<>>, "Ok", FALSE), 0) :
        x \in {<<"onager_compute_diameter", TRUE, <<(<<1>>), (<<2>>)>>>>,
               <<"onager_compute_diameter", TRUE, <<(<<1, 3>>), (<<2, 3>>)>>>>,
               <<"onager_compute_diameter", FALSE, <<(<<>>), (<<>>)>>>>,
               <<"onager_compute_radius", TRUE, <<(<<1, 3>>), (<<2, 3>>)>>>>,
               <<"onager_compute_avg_path_length", TRUE, <<(<<1, 3>>), (<<2, 3>>)>>>>}}
    \cup {FfiCallRec("onager_compute_ego_graph", TRUE,
                     AlgCallRec("compute_ego_graph", <<1>>, <<2>>, <<>>, x[1], 0, x[2], 0, <<>>, "Ok", FALSE), 0) :
        x \in {<<1, 0>>, <<1, 1>>, <<4, 1>>}}
    \cup {FfiCallRec("onager_compute_dijkstra", TRUE,
                     AlgCallRec("compute_dijkstra", <<1>>, <<2>>, <<>>, x, 0, 0, 0, <<>>, "Ok", FALSE), 0) :
        x \in {1, 3}}
    \cup {FfiCallRec("onager_compute_shortest_distance", TRUE,
                     AlgCallRec("compute_shortest_distance", <<1, 3>>, <<2, 3>>, <<>>, 1, 3, 0, 0, <<>>, "Ok", FALSE), 0),
          FfiCallRec("onager_compute_graph_density", TRUE,
                     AlgCallRec("compute_graph_density", <<1>>, <<2>>, <<>>, 0, 0, 0, 0, <<>>, "Ok", FALSE), 0)}
    \cup {FfiCallRec("onager_generate_erdos_renyi", TRUE,
                     AlgCallRec("generate_erdos_renyi", <<>>, <<>>, <<>>, 0, 0, x[1], 5, <<>>, "Ok", FALSE), x[2]) :
        x \in {<<0, 0>>, <<2, 1>>}}

\* One call of each of the other entry points over edge arrays and of the
\* other generators, on the edge 1-2 where nothing else is said: calls that
\* succeed, calls on no edge, on a node that is not in the graph, with an
\* argument out of range, with a null pointer, and with a library error.
FfiMoreCalls ==
    \* ffi/traversal.rs.
    {FfiCallRec("onager_compute_bfs", TRUE,
                AlgCallRec("compute_bfs", <<1>>, <<2>>, <<>>, 3, 0, 0, 0, <<>>, "Ok", FALSE), 0),
     FfiCallRec("onager_compute_dfs", TRUE,
                AlgCallRec("compute_dfs", <<1>>, <<2>>, <<>>, 1, 0, 0, 0, <<>>, "Ok", FALSE), 0),
     FfiCallRec("onager_compute_bellman_ford", TRUE,
                AlgCallRec("compute_bellman_ford", <<1>>, <<2>>, <<-1>>, 1, 0, 0, 0, <<>>, "Ok", FALSE), 0),
     FfiCallRec("onager_compute_floyd_warshall", TRUE,
                AlgCallRec("compute_floyd_warshall", <<1>>, <<1>>, <<1>>, 0, 0, 0, 0, <<>>, "Ok", FALSE), 0)}
    \* ffi/centrality.rs.
    \cup {FfiCallRec("onager_compute_pagerank", FALSE,
                     AlgCallRec("compute_pagerank", <<>>, <<>>, <<>>, 0, 0, 0, 0, <<>>, "Ok", FALSE), 0),
          FfiCallRec("onager_compute_pagerank_parallel", TRUE,
                     AlgCallRec("compute_pagerank_parallel", <<1>>, <<2>>, <<>>, 0, 0, 0, 0, <<>>, "Ok", FALSE), 0),
          FfiCallRec("onager_compute_degree", TRUE,
                     AlgCallRec("compute_degree", <<1>>, <<2>>, <<>>, 0, 0, 0, 0, <<>>, "Ok", TRUE), 0),
          FfiCallRec("onager_compute_node_in_degree", TRUE,
                     AlgCallRec("compute_node_degree", <<1>>, <<2>>, <<>>, 2, 0, 0, 0, <<>>, "Ok", FALSE), 0),
          FfiCallRec("onager_compute_node_out_degree", TRUE,
                     AlgCallRec("compute_node_degree", <<1>>, <<2>>, <<>>, 3, 0, 0, 0, <<>>, "Ok", FALSE), 0),
          FfiCallRec("onager_compute_betweenness", TRUE,
                     AlgCallRec("compute_betweenness", <<>>, <<>>, <<>>, 0, 0, 0, 0, <<>>, "Ok", FALSE), 0),
          FfiCallRec("onager_compute_closeness", TRUE,
                     AlgCallRec("compute_closeness", <<1>>, <<2>>, <<>>, 0, 0, 0, 0, <<>>, "Ok", FALSE), 0),
          FfiCallRec("onager_compute_eigenvector", TRUE,
                     AlgCallRec("compute_eigenvector", <<1>>, <<2>>, <<>>, 0, 0, 0, 0, <<>>, "GraphError", FALSE), 0),
          FfiCallRec("onager_compute_katz", TRUE,
                     AlgCallRec("compute_katz", <<1>>, <<2>>, <<>>, 0, 0, 0, 0, <<>>, "Ok", FALSE), 0),
          FfiCallRec("onager_compute_harmonic", TRUE,
                     AlgCallRec("compute_harmonic", <<1>>, <<2>>, <<>>, 0, 0, 0, 0, <<>>, "Ok", FALSE), 0),
          FfiCallRec("onager_compute_voterank", TRUE,
                     AlgCallRec("compute_voterank", <<1>>, <<2>>, <<>>, 0, 0, 0, 0, <<>>, "Ok", FALSE), 1),
          FfiCallRec("onager_compute_local_reaching", TRUE,
                     AlgCallRec("compute_local_reaching", <<>>, <<>>, <<>>, 0, 0, 0, 0, <<>>, "Ok", FALSE), 0),
          FfiCallRec("onager_compute_laplacian", TRUE,
                     AlgCallRec("compute_laplacian", <<1>>, <<2>>, <<>>, 0, 0, 0, 0, <<>>, "Ok", FALSE), 0)}
    \* ffi/community.rs.
    \cup {FfiCallRec("onager_compute_louvain", TRUE,
                     AlgCallRec("compute_louvain", <<>>, <<>>, <<>>, 0, 0, 0, 0, <<>>, "Ok", FALSE), 0),
          FfiCallRec("onager_compute_connected_components", TRUE,
                     AlgCallRec("compute_connected_components", <<1>>, <<2>>, <<>>, 0, 0, 0, 0, <<>>, "Ok", FALSE), 0),
          FfiCallRec("onager_compute_label_propagation", TRUE,
                     AlgCallRec("compute_label_propagation", <<1>>, <<2>>, <<>>, 0, 0, 0, 0, <<>>, "Ok", FALSE), 0),
          FfiCallRec("onager_compute_girvan_newman", TRUE,
                     AlgCallRec("compute_girvan_newman", <<1>>, <<2>>, <<>>, 0, 0, 0, 0, <<>>, "Ok", FALSE), 0),
          FfiCallRec("onager_compute_spectral_clustering", TRUE,
                     AlgCallRec("compute_spectral_clustering", <<1>>, <<2>>, <<>>, 0, 0, 0, 0, <<>>, "Ok", FALSE), 0),
          FfiCallRec("onager_compute_infomap", TRUE,
                     AlgCallRec("compute_infomap", <<1>>, <<2>>, <<>>, 0, 0, 1, 0, <<>>, "Ok", FALSE), 0)}
    \* ffi/links.rs.
    \cup {FfiCallRec("onager_compute_jaccard", TRUE,
                     AlgCallRec("compute_jaccard", <<1>>, <<2>>, <<>>, 0, 0, 0, 0, <<>>, "Ok", FALSE), 1),
          FfiCallRec("onager_compute_adamic_adar", TRUE,
                     AlgCallRec("compute_adamic_adar", <<>>, <<>>, <<>>, 0, 0, 0, 0, <<>>, "Ok", FALSE), 0),
          FfiCallRec("onager_compute_preferential_attachment", TRUE,
                     AlgCallRec("compute_preferential_attachment", <<1>>, <<2>>, <<>>, 0, 0, 0, 0, <<>>, "Ok", FALSE), 1),
          FfiCallRec("onager_compute_resource_allocation", TRUE,
                     AlgCallRec("compute_resource_allocation", <<1>>, <<2>>, <<>>, 0, 0, 0, 0, <<>>, "Ok", FALSE), 1),
          FfiCallRec("onager_compute_common_neighbors", FALSE,
                     AlgCallRec("compute_common_neighbors", <<>>, <<>>, <<>>, 0, 0, 0, 0, <<>>, "Ok", FALSE), 0)}
    \* ffi/metrics.rs.
    \cup {FfiCallRec("onager_compute_avg_clustering", TRUE,
                     AlgCallRec("compute_avg_clustering", <<1>>, <<2>>, <<>>, 0, 0, 0, 0, <<>>, "Ok", FALSE), 0),
          FfiCallRec("onager_compute_transitivity", TRUE,
                     AlgCallRec("compute_transitivity", <<1>>, <<2>>, <<>>, 0, 0, 0, 0, <<>>, "Ok", FALSE), 0),
          FfiCallRec("onager_compute_triangle_count", TRUE,
                     AlgCallRec("compute_triangle_count", <<1>>, <<2>>, <<>>, 0, 0, 0, 0, <<>>, "Ok", FALSE), 0),
          FfiCallRec("onager_compute_assortativity", TRUE,
                     AlgCallRec("compute_assortativity", <<>>, <<>>, <<>>, 0, 0, 0, 0, <<>>, "Ok", FALSE), 0)}
    \* ffi/mst.rs.
    \cup {FfiCallRec("onager_compute_prim_mst", TRUE,
                     AlgCallRec("compute_prim_mst", <<1>>, <<2>>, <<1>>, 0, 0, 0, 0, <<>>, "Ok", FALSE), 0),
          FfiCallRec("onager_compute_kruskal_mst", FALSE,
                     AlgCallRec("compute_kruskal_mst", <<>>, <<>>, <<>>, 0, 0, 0, 0, <<>>, "Ok", FALSE), 0)}
    \* ffi/approximation.rs.
    \cup {FfiCallRec("onager_compute_max_clique", TRUE,
                     AlgCallRec("compute_max_clique", <<>>, <<>>, <<>>, 0, 0, 0, 0, <<>>, "Ok", FALSE), 0),
          FfiCallRec("onager_compute_independent_set", TRUE,
                     AlgCallRec("compute_independent_set", <<1>>, <<2>>, <<>>, 0, 0, 0, 0, <<>>, "Ok", FALSE), 1),
          FfiCallRec("onager_compute_vertex_cover", TRUE,
                     AlgCallRec("compute_vertex_cover", <<1>>, <<2>>, <<>>, 0, 0, 0, 0, <<>>, "Ok", FALSE), 1),
          FfiCallRec("onager_compute_tsp", TRUE,
                     AlgCallRec("compute_tsp", <<>>, <<>>, <<>>, 0, 0, 0, 0, <<>>, "Ok", FALSE), 0)}
    \* ffi/parallel.rs.
    \cup {FfiCallRec("onager_compute_bfs_parallel", TRUE,
                     AlgCallRec("compute_bfs_parallel", <<1>>, <<2>>, <<>>, 3, 0, 0, 0, <<>>, "Ok", FALSE), 0),
          FfiCallRec("onager_compute_shortest_paths_parallel", TRUE,
                     AlgCallRec("compute_shortest_paths_parallel", <<1>>, <<2>>, <<>>, 1, 0, 0, 0, <<>>, "Ok", FALSE), 0),
          FfiCallRec("onager_compute_components_parallel", TRUE,
                     AlgCallRec("compute_components_parallel", <<1>>, <<2>>, <<>>, 0, 0, 0, 0, <<>>, "Ok", FALSE), 0),
          FfiCallRec("onager_compute_clustering_parallel", TRUE,
                     AlgCallRec("compute_clustering_parallel", <<1>>, <<2>>, <<>>, 0, 0, 0, 0, <<>>, "Ok", FALSE), 0),
          FfiCallRec("onager_compute_triangles_parallel", TRUE,
                     AlgCallRec("compute_triangles_parallel", <<>>, <<>>, <<>>, 0, 0, 0, 0, <<>>, "Ok", FALSE), 0)}
    \* ffi/personalized.rs and ffi/subgraphs.rs.
    \cup {FfiCallRec("onager_compute_personalized_pagerank", TRUE,
                     AlgCallRec("compute_personalized_pagerank", <<1>>, <<2>>, <<>>, 0, 0, 1, 11, <<>>, "Ok", FALSE), 0),
          FfiCallRec("onager_compute_k_hop_neighbors", TRUE,
                     AlgCallRec("compute_k_hop_neighbors", <<1>>, <<2>>, <<>>, 3, 0, 1, 0, <<>>, "Ok", FALSE), 0),
          FfiCallRec("onager_compute_induced_subgraph", TRUE,
                     AlgCallRec("compute_induced_subgraph", <<1>>, <<2>>, <<>>, 0, 0, 0, 0, <<>>, "Ok", FALSE), 0)}
    \* ffi/generators.rs.
    \cup {FfiCallRec("onager_generate_barabasi_albert", TRUE,
                     AlgCallRec("generate_barabasi_albert", <<>>, <<>>, <<>>, 0, 2, 1, 0, <<>>, "Ok", FALSE), 0),
          FfiCallRec("onager_generate_watts_strogatz", TRUE,
                     AlgCallRec("generate_watts_strogatz", <<>>, <<>>, <<>>, 0, 2, 3, 5, <<>>, "Ok", FALSE), 3)}

FfiCalls == FfiRegistryCalls \cup FfiArrayCalls \cup FfiMoreCalls

\* What a thread's last entry-point call returned: err is TRUE when the call
\* took an error path (msg is then its message), pending when the last call
\* that began with clear_last_error() did.
FfiRet(fn, value, err, pending, msg) ==
    [msg |-> msg, fn |-> fn, err |-> err, value |-> value, pending |-> pending]

NoFfiRet == FfiRet("none", <<>>, FALSE, FALSE, <<>>)

\* What onager_last_error() gave a thread: the pointer, and the bytes the
\* caller has read through it (Unread before it has).
Seen(ptr, msg) == [msg |-> msg, ptr |-> ptr]

Unread == <<"unread">>

\* What a read of freed memory may give instead of the message.
Garbage == <<"garbage">>

NoSeen == Seen(Null, <<"none">>)

\* No entry point has been called.
FfiIdle ==
    /\ LAST_ERROR = Null
    /\ heap = <<>>
    /\ fpc = [t \in Threads |-> "idle"]
    /\ fcall = [t \in Threads |-> NoFfiCall]
    /\ old = [t \in Threads |-> Null]
    /\ fret = [t \in Threads |-> NoFfiRet]
    /\ seen = [t \in Threads |-> NoSeen]
    /\ nffi = 0

(***************************************************************************)
(* What a caller has seen returned: the names it created and has not       *)
(* dropped, the names it has dropped and not created again, and for each   *)
(* live name the ids add_node accepted and the number of add_edge calls    *)
(* that returned Ok since the create.                                      *)
(***************************************************************************)
NoHist ==
    [live |-> {}, dropped |-> {}, okNodes |-> [n \in Names |-> {}],
     okEdges |-> [n \in Names |-> 0]]

Observe(h, c, res) ==
    IF res.kind # "Ok" THEN h
    ELSE CASE c.op = "create_graph" ->
                [live |-> h.live \cup {c.name},
                 dropped |-> h.dropped \ {c.name},
                 okNodes |-> [h.okNodes EXCEPT ![c.name] = {}],
                 okEdges |-> [h.okEdges EXCEPT ![c.name] = 0]]
           [] c.op = "drop_graph" ->
                [live |-> h.live \ {c.name},
                 dropped |-> h.dropped \cup {c.name},
                 okNodes |-> [h.okNodes EXCEPT ![c.name] = {}],
                 okEdges |-> [h.okEdges EXCEPT ![c.name] = 0]]
           [] c.op = "add_node" -> [h EXCEPT !.okNodes[c.name] = @ \cup {c.src}]
           [] c.op = "add_edge" -> [h EXCEPT !.okEdges[c.name] = @ + 1]
           [] OTHER -> h

(***************************************************************************)
(* Spec: one caller.                                                       *)
(***************************************************************************)
Do(c) ==
    \E r \in {Run(GRAPH_REGISTRY, c)} :
       /\ WithinBounds(r.reg)
       /\ GRAPH_REGISTRY' = r.reg
       /\ ret' = [res |-> r.res, call |-> c]
       /\ hist' = Observe(hist, c, r.res)
       /\ UNCHANGED <<concVars, algVars, ffiVars>>

CreateGraph == \E n \in Names, d \in BOOLEAN : Do(Call("create_graph", n, d, 0, 0, 0))
DropGraph == \E n \in Names : Do(Call("drop_graph", n, FALSE, 0, 0, 0))
ListGraphs == Do(Call("list_graphs", NoName, FALSE, 0, 0, 0))
AddNode == \E n \in Names, i \in Ids : Do(Call("add_node", n, FALSE, i, 0, 0))
AddEdge == \E n \in Names, s \in Ids, d \in Ids, w \in Weights :
               Do(Call("add_edge", n, FALSE, s, d, w))
NodeCount == \E n \in Names : Do(Call("node_count", n, FALSE, 0, 0, 0))
EdgeCount == \E n \in Names : Do(Call("edge_count", n, FALSE, 0, 0, 0))
GetNodeInDegree == \E n \in Names, i \in Ids : Do(Call("get_node_in_degree", n, FALSE, i, 0, 0))
GetNodeOutDegree == \E n \in Names, i \in Ids : Do(Call("get_node_out_degree", n, FALSE, i, 0, 0))

Init ==
    /\ GRAPH_REGISTRY = EmptyMap
    /\ ret = [res |-> NoRes, call |-> NoCall]
    /\ hist = NoHist
    /\ pc = [t \in Threads |-> "idle"]
    /\ tcall = [t \in Threads |-> NoCall]
    /\ tret = [t \in Threads |-> NoRes]
    /\ rwlock = [writer |-> NoThread, readers |-> {}]
    /\ ncalls = 0
    /\ algCall = NoAlgCall
    /\ algRet = NoAlgRes
    /\ FfiIdle

Next ==
    \/ CreateGraph
    \/ DropGraph
    \/ ListGraphs
    \/ AddNode
    \/ AddEdge
    \/ NodeCount
    \/ EdgeCount
    \/ GetNodeInDegree
    \/ GetNodeOutDegree

Spec == Init /\ [][Next]_vars

(***************************************************************************)
(* SpecConc: threads calling the registry functions.  A thread calls a     *)
(* function (Invoke), is granted the guard the function asks for           *)
(* (Acquire), makes the function's tests (Test), and makes its changes and *)
(* returns, which drops the guard (Return).  rwlock is the state of the    *)
(* RwLock: the thread holding it for writing, if any, and the threads      *)
(* holding it for reading.                                                 *)
(***************************************************************************)
Invoke(t, c) ==
    /\ pc[t] = "idle"
    /\ ncalls < MaxCalls
    /\ pc' = [pc EXCEPT ![t] = "waiting"]
    /\ tcall' = [tcall EXCEPT ![t] = c]
    /\ ncalls' = ncalls + 1
    /\ UNCHANGED <<tret, rwlock, regVars, algVars, ffiVars>>

Acquire(t) ==
    /\ pc[t] = "waiting"
    /\ rwlock.writer = NoThread
    /\ IF LockMode(tcall[t].op) = "write"
       THEN /\ rwlock.readers = {}
            /\ rwlock' = [rwlock EXCEPT !.writer = t]
       ELSE rwlock' = [rwlock EXCEPT !.readers = @ \cup {t}]
    /\ pc' = [pc EXCEPT ![t] = "locked"]
    /\ UNCHANGED <<tcall, tret, ncalls, regVars, algVars, ffiVars>>

\* The tests the function makes with the guard in hand (contains_key,
\* get_mut, the lookups of the node ids) and, for a reading function, the
\* value it reads: they decide what the function returns.
Test(t) ==
    /\ pc[t] = "locked"
    /\ tret' = [tret EXCEPT ![t] = Run(GRAPH_REGISTRY, tcall[t]).res]
    /\ pc' = [pc EXCEPT ![t] = "tested"]
    /\ UNCHANGED <<tcall, rwlock, ncalls, regVars, algVars, ffiVars>>

\* What a writing function does to the map once its tests have passed:
\* registry.insert, registry.remove, graph.add_node with node_mapping.insert,
\* graph.add_edge.
Act(reg, c) ==
    CASE c.op = "create_graph" -> (c.name :> GraphType_new(c.directed)) @@ reg
      [] c.op = "drop_graph" -> [n \in DOMAIN reg \ {c.name} |-> reg[n]]
      [] c.op = "add_node" /\ c.name \in DOMAIN reg ->
            LET added == graph_add_node(reg[c.name], c.src)
            IN [reg EXCEPT ![c.name] =
                   [added.g EXCEPT !.node_mapping =
                       (c.src :> added.internal_id) @@ [x \in DOMAIN @ \ {c.src} |-> @[x]]]]
      [] c.op = "add_edge" /\ c.name \in DOMAIN reg ->
            LET g == reg[c.name]
            IN [reg EXCEPT ![c.name] =
                   graph_add_edge(g, g.node_mapping[c.src], g.node_mapping[c.dst], c.weight)]
      [] OTHER -> reg

\* The function makes its changes, if its tests passed, and returns, which
\* drops the guard.
Return(t) ==
    /\ pc[t] = "tested"
    /\ LET reg == IF tret[t].kind = "Ok" THEN Act(GRAPH_REGISTRY, tcall[t])
                  ELSE GRAPH_REGISTRY
       IN /\ WithinBounds(reg)
          /\ GRAPH_REGISTRY' = reg
    /\ rwlock' = IF LockMode(tcall[t].op) = "write"
                 THEN [rwlock EXCEPT !.writer = NoThread]
                 ELSE [rwlock EXCEPT !.readers = @ \ {t}]
    /\ pc' = [pc EXCEPT ![t] = "idle"]
    /\ UNCHANGED <<tcall, tret, ncalls, ret, hist, algVars, ffiVars>>

\* The registry after the calls of cs, made one after the other.
RECURSIVE After(_, _)
After(reg, cs) == IF cs = <<>> THEN reg ELSE After(Run(reg, Head(cs)).reg, Tail(cs))

\* Registries the threads start from: the empty one, and the ones left by
\* creating graph "a" and by adding node 1 to it.
ConcStart ==
    {After(EmptyMap, <<>>),
     After(EmptyMap, <<Call("create_graph", "a", FALSE, 0, 0, 0)>>),
     After(EmptyMap, <<Call("create_graph", "a", TRUE, 0, 0, 0),
                       Call("add_node", "a", FALSE, 1, 0, 0)>>)}

InitConc ==
    /\ GRAPH_REGISTRY \in ConcStart
    /\ ret = [res |-> NoRes, call |-> NoCall]
    /\ hist = NoHist
    /\ pc = [t \in Threads |-> "idle"]
    /\ tcall = [t \in Threads |-> NoCall]
    /\ tret = [t \in Threads |-> NoRes]
    /\ rwlock = [writer |-> NoThread, readers |-> {}]
    /\ ncalls = 0
    /\ algCall = NoAlgCall
    /\ algRet = NoAlgRes
    /\ FfiIdle

NextConc ==
    \/ \E t \in Threads, c \in Calls : Invoke(t, c)
    \/ \E t \in Threads : Acquire(t)
    \/ \E t \in Threads : Test(t)
    \/ \E t \in Threads : Return(t)

SpecConc == InitConc /\ [][NextConc]_vars

(***************************************************************************)
(* SpecAlg: one call of an array-based function.  The functions keep no    *)
(* state: the step applies the function to the arguments of the call.      *)
(***************************************************************************)
\* The functions of each file of algorithms/.

\* The call is made: the function named in algCall runs on its arguments.
AlgStep(algs) ==
    /\ algCall.alg \in algs
    /\ algRet = NoAlgRes
    /\ algRet' = AlgRun(algCall)
    /\ UNCHANGED <<algCall, regVars, concVars, ffiVars>>

Traversal ==
    AlgStep({"compute_dijkstra", "compute_bfs", "compute_dfs",
             "compute_shortest_distance", "compute_bellman_ford",
             "compute_floyd_warshall"})
Centrality ==
    AlgStep({"compute_pagerank", "compute_degree", "compute_betweenness",
             "compute_closeness", "compute_eigenvector", "compute_katz",
             "compute_harmonic", "compute_node_degree", "compute_voterank",
             "compute_local_reaching", "compute_laplacian"})
Community ==
    AlgStep({"compute_louvain", "compute_connected_components",
             "compute_label_propagation", "compute_girvan_newman",
             "compute_spectral_clustering", "compute_infomap"})
Links ==
    AlgStep({"compute_jaccard", "compute_adamic_adar",
             "compute_preferential_attachment", "compute_resource_allocation"})
Metrics ==
    AlgStep({"compute_diameter", "compute_radius", "compute_avg_clustering",
             "compute_avg_path_length", "compute_transitivity",
             "compute_triangle_count", "compute_assortativity",
             "compute_graph_density"})
Mst ==
    AlgStep({"compute_prim_mst", "compute_kruskal_mst"})
Approximation ==
    AlgStep({"compute_max_clique", "compute_independent_set", "compute_vertex_cover",
             "compute_tsp"})
Parallel ==
    AlgStep({"compute_pagerank_parallel", "compute_bfs_parallel",
             "compute_shortest_paths_parallel", "compute_components_parallel",
             "compute_clustering_parallel", "compute_triangles_parallel"})
Personalized ==
    AlgStep({"compute_personalized_pagerank"})
Subgraphs ==
    AlgStep({"compute_ego_graph", "compute_k_hop_neighbors",
             "compute_induced_subgraph"})
Generators ==
    AlgStep({"generate_erdos_renyi", "generate_barabasi_albert",
             "generate_watts_strogatz"})

\* A caller's arguments, drawn from the bounded sets; nothing returned yet.
InitAlg ==
    /\ GRAPH_REGISTRY = EmptyMap
    /\ ret = [res |-> NoRes, call |-> NoCall]
    /\ hist = NoHist
    /\ pc = [t \in Threads |-> "idle"]
    /\ tcall = [t \in Threads |-> NoCall]
    /\ tret = [t \in Threads |-> NoRes]
    /\ rwlock = [writer |-> NoThread, readers |-> {}]
    /\ ncalls = 0
    /\ \/ TraversalCalls \/ CentralityCalls \/ CommunityCalls \/ LinksCalls
       \/ MetricsCalls \/ MstCalls \/ ApproximationCalls \/ ParallelCalls
       \/ PersonalizedCalls \/ SubgraphsCalls \/ GeneratorsCalls
    /\ algRet = NoAlgRes
    /\ FfiIdle

NextAlg ==
    \/ Traversal
    \/ Centrality
    \/ Community
    \/ Links
    \/ Metrics
    \/ Mst
    \/ Approximation
    \/ Parallel
    \/ Personalized
    \/ Subgraphs
    \/ Generators

SpecAlg == InitAlg /\ [][NextAlg]_vars

(***************************************************************************)
(* SpecFfi: threads calling the C entry points.  An entry point begins     *)
(* with clear_last_error() (swap null in, then drop what was there), runs  *)
(* its body, and on an error path ends with set_last_error(msg) (make the  *)
(* C string and swap it in, then drop what was there) and the sentinel.    *)
(* old is the local of that name in both functions.                        *)
(***************************************************************************)
\* swap that, when asked to put null in, only loads the slot.
swap_load_on_clear(t, ptr) ==
    /\ old' = [old EXCEPT ![t] = LAST_ERROR]
    /\ LAST_ERROR' = IF ptr = Null THEN LAST_ERROR ELSE ptr

\* let old = LAST_ERROR.swap(ptr, Ordering::SeqCst)
swap(t, ptr) ==
    /\ old' = [old EXCEPT ![t] = LAST_ERROR]
    /\ LAST_ERROR' = ptr

\* if !old.is_null() { drop(CString::from_raw(old)) }
drop(h, p) == IF p = Null THEN h ELSE [h EXCEPT ![p].frees = @ + 1]

\* CString::new(msg).into_raw(): the heap with the new string at its end.
into_raw(h, msg) == Append(h, [msg |-> msg, frees |-> 0])

\* An entry point that does not begin with clear_last_error().
clear_last_error_swap_skipped(t, c) ==
    /\ fpc[t] = "idle"
    /\ nffi < MaxFfiCalls
    /\ fpc' = [fpc EXCEPT ![t] = "body"]
    /\ fcall' = [fcall EXCEPT ![t] = c]
    /\ seen' = [seen EXCEPT ![t] = NoSeen]
    /\ nffi' = nffi + 1
    /\ UNCHANGED <<LAST_ERROR, old, heap, fret, regVars, concVars, algVars>>

\* Thread t calls the entry point of c, which swaps null into the slot.
clear_last_error_swap(t, c) ==
    /\ fpc[t] = "idle"
    /\ nffi < MaxFfiCalls
    /\ swap(t, Null)
    /\ fpc' = [fpc EXCEPT ![t] = "clear"]
    /\ fcall' = [fcall EXCEPT ![t] = c]
    /\ seen' = [seen EXCEPT ![t] = NoSeen]
    /\ nffi' = nffi + 1
    /\ UNCHANGED <<heap, fret, regVars, concVars, algVars>>

\* clear_last_error() drops the string it swapped out.
clear_last_error_drop(t) ==
    /\ fpc[t] = "clear"
    /\ heap' = drop(heap, old[t])
    /\ old' = [old EXCEPT ![t] = Null]
    /\ fpc' = [fpc EXCEPT ![t] = "body"]
    /\ UNCHANGED <<LAST_ERROR, fcall, fret, seen, nffi, regVars, concVars, algVars>>

\* The body of the entry point, up to its return or to what it does once
\* the function it called has returned: it returns its value, or goes on to
\* set_last_error(msg), or (onager_list_graphs) to make the C string of
\* the names graph::list_graphs() gave it, held in msg meanwhile.
EntryPoint(t) ==
    /\ fpc[t] = "body"
    /\ \E out \in {FfiRun(GRAPH_REGISTRY, fcall[t])} :
          /\ GRAPH_REGISTRY' = out.reg
          /\ fret' = [fret EXCEPT ![t] =
                         FfiRet(fcall[t].fn, out.value, out.err, out.err,
                                IF out.str = <<>> THEN out.msg ELSE out.str)]
          /\ fpc' = [fpc EXCEPT ![t] = IF out.err THEN "set"
                                        ELSE IF out.str = <<>> THEN "idle" ELSE "json"]
          /\ fcall' = [fcall EXCEPT ![t] = IF out.err \/ out.str # <<>> THEN @ ELSE NoFfiCall]
    /\ UNCHANGED <<LAST_ERROR, heap, old, seen, nffi, ret, hist, concVars, algVars>>

\* CString::new(json).map(|s| s.into_raw()) of onager_list_graphs: the
\* caller is handed the names as a new C string.  The guard list_graphs()
\* read the registry under is gone by then.
CString_new(t) ==
    /\ fpc[t] = "json"
    /\ heap' = into_raw(heap, fret[t].msg)
    /\ fret' = [fret EXCEPT ![t] = FfiRet(@.fn, <<Len(heap) + 1>>, FALSE, FALSE, <<>>)]
    /\ fpc' = [fpc EXCEPT ![t] = "idle"]
    /\ fcall' = [fcall EXCEPT ![t] = NoFfiCall]
    /\ UNCHANGED <<LAST_ERROR, old, seen, nffi, regVars, concVars, algVars>>

\* set_last_error(msg) makes the C string and swaps it into the slot.
set_last_error_swap(t) ==
    /\ fpc[t] = "set"
    /\ heap' = into_raw(heap, fret[t].msg)
    /\ swap(t, Len(heap) + 1)
    /\ fpc' = [fpc EXCEPT ![t] = "set_drop"]
    /\ UNCHANGED <<fcall, fret, seen, nffi, regVars, concVars, algVars>>

\* set_last_error(msg) drops the string it swapped out, and the entry point
\* returns the sentinel.
set_last_error_drop(t) ==
    /\ fpc[t] = "set_drop"
    /\ heap' = drop(heap, old[t])
    /\ old' = [old EXCEPT ![t] = Null]
    /\ fpc' = [fpc EXCEPT ![t] = "idle"]
    /\ fcall' = [fcall EXCEPT ![t] = NoFfiCall]
    /\ UNCHANGED <<LAST_ERROR, fret, seen, nffi, regVars, concVars, algVars>>

\* LAST_ERROR.load(Ordering::SeqCst): the caller is handed the pointer.
onager_last_error(t) ==
    /\ fpc[t] = "idle"
    /\ seen' = [seen EXCEPT ![t] = Seen(LAST_ERROR, IF LAST_ERROR = Null THEN <<>> ELSE Unread)]
    /\ UNCHANGED <<LAST_ERROR, heap, fpc, fcall, old, fret, nffi, regVars, concVars, algVars>>

\* The caller reads the message through the pointer onager_last_error()
\* handed it, before its next call.  The string is still owned by the slot:
\* when a call of another thread has dropped it in between, the read is of
\* freed memory, and gives the message or something else.
read_last_error(t) ==
    /\ fpc[t] = "idle"
    /\ seen[t].ptr # Null
    /\ seen[t].msg = Unread
    /\ \/ seen' = [seen EXCEPT ![t] = Seen(@.ptr, heap[@.ptr].msg)]
       \/ /\ heap[seen[t].ptr].frees > 0
          /\ seen' = [seen EXCEPT ![t] = Seen(@.ptr, Garbage)]
    /\ UNCHANGED <<LAST_ERROR, heap, fpc, fcall, old, fret, nffi, regVars, concVars, algVars>>

\* CString::new(VERSION).into_raw(): the caller is handed a new string.
onager_get_version(t) ==
    /\ fpc[t] = "idle"
    /\ nffi < MaxFfiCalls
    /\ heap' = into_raw(heap, <<"VERSION">>)
    /\ fret' = [fret EXCEPT ![t] =
                   FfiRet("onager_get_version", <<Len(heap) + 1>>, FALSE, @.pending, <<>>)]
    /\ seen' = [seen EXCEPT ![t] = NoSeen]
    /\ nffi' = nffi + 1
    /\ UNCHANGED <<LAST_ERROR, fpc, fcall, old, regVars, concVars, algVars>>

\* onager_free(ptr), with null or with the string onager_get_version or
\* onager_list_graphs has just handed the caller.
onager_free(t) ==
    /\ fpc[t] = "idle"
    /\ nffi < MaxFfiCalls
    /\ \E ptr \in {Null} \cup (IF fret[t].fn \in {"onager_list_graphs", "onager_get_version"}
                                THEN {fret[t].value[1]} ELSE {}) :
           heap' = drop(heap, ptr)
    /\ fret' = [fret EXCEPT ![t] = FfiRet("onager_free", <<>>, FALSE, @.pending, <<>>)]
    /\ seen' = [seen EXCEPT ![t] = NoSeen]
    /\ nffi' = nffi + 1
    /\ UNCHANGED <<LAST_ERROR, fpc, fcall, old, regVars, concVars, algVars>>

\* Registries the threads start from: the empty one, and the one left by
\* onager_create_graph("a") and onager_add_node("a", 1), which succeed and
\* leave the slot null.
FfiStart ==
    {EmptyMap,
     After(EmptyMap, <<Call("create_graph", "a", FALSE, 0, 0, 0),
                       Call("add_node", "a", FALSE, 1, 0, 0)>>)}

InitFfi ==
    /\ GRAPH_REGISTRY \in FfiStart
    /\ ret = [res |-> NoRes, call |-> NoCall]
    /\ hist = NoHist
    /\ pc = [t \in Threads |-> "idle"]
    /\ tcall = [t \in Threads |-> NoCall]
    /\ tret = [t \in Threads |-> NoRes]
    /\ rwlock = [writer |-> NoThread, readers |-> {}]
    /\ ncalls = 0
    /\ algCall = NoAlgCall
    /\ algRet = NoAlgRes
    /\ FfiIdle

NextFfi ==
    \/ \E t \in Threads :
           fpc[t] = "idle" /\ nffi < MaxFfiCalls /\ \E c \in FfiCalls : clear_last_error_swap(t, c)
    \/ \E t \in Threads : clear_last_error_drop(t)
    \/ \E t \in Threads : EntryPoint(t)
    \/ \E t \in Threads : CString_new(t)
    \/ \E t \in Threads : set_last_error_swap(t)
    \/ \E t \in Threads : set_last_error_drop(t)
    \/ \E t \in Threads : onager_last_error(t)
    \/ \E t \in Threads : read_last_error(t)
    \/ \E t \in Threads : onager_get_version(t)
    \/ \E t \in Threads : onager_free(t)

SpecFfi == InitFfi /\ [][NextFfi]_vars

(***************************************************************************)
(* SpecFrame: the one caller of Spec, who also calls entry points over     *)
(* edge arrays and a generator, between two calls of the registry         *)
(* functions.                                                              *)
(***************************************************************************)
MaxFrameCalls == 1

FrameCaller == CHOOSE t \in Threads : TRUE

\* onager_compute_dijkstra on the edge 1-2 from node 3, which is not in the
\* graph, and onager_generate_erdos_renyi of two nodes.
FrameCalls ==
    {c \in FfiArrayCalls :
        \/ c.fn = "onager_compute_dijkstra" /\ c.call.node = 3
        \/ c.fn = "onager_generate_erdos_renyi" /\ c.call.n = 2}

NextFrame ==
    \/ fpc[FrameCaller] = "idle" /\ Next
    \/ \E c \in FrameCalls : nffi < MaxFrameCalls /\ clear_last_error_swap(FrameCaller, c)
    \/ clear_last_error_drop(FrameCaller)
    \/ EntryPoint(FrameCaller)
    \/ set_last_error_swap(FrameCaller)
    \/ set_last_error_drop(FrameCaller)

SpecFrame == Init /\ [][NextFrame]_vars

(***************************************************************************)
(* Properties of the registry (Spec).                                      *)
(***************************************************************************)
KeyedOps == {"drop_graph", "add_node", "add_edge", "node_count", "edge_count",
             "get_node_in_degree", "get_node_out_degree"}

\* The internal ids the graph's mapping gives to the ids in S.
InternalIds(g, S) == {g.node_mapping[x] : x \in S \cap DOMAIN g.node_mapping}

\* ---- C1 ----
\* A step that is add_edge on a graph of the registry, with src or dst not
\* among the ids add_node accepted for that graph, returns NodeNotFound for
\* the first such endpoint and leaves the registry as it was (no node is
\* created, node_count and edge_count keep their values).
C1_Step ==
    LET c == ret'.call IN
    (/\ c.op = "add_edge"
     /\ c.name \in DOMAIN GRAPH_REGISTRY
     /\ {c.src, c.dst} \ hist.okNodes[c.name] # {})
    => /\ ret'.res.kind = "NodeNotFound"
       /\ ret'.res.id = (IF c.src \notin hist.okNodes[c.name] THEN c.src ELSE c.dst)
       /\ GRAPH_REGISTRY' = GRAPH_REGISTRY

\* Every stored edge joins two nodes that add_node added.
C1_EdgesJoinAddedNodes ==
    \A n \in DOMAIN GRAPH_REGISTRY :
        LET g == GRAPH_REGISTRY[n] IN
        \A i \in 1..Len(g.edges) :
            {g.edges[i].s, g.edges[i].t} \subseteq InternalIds(g, hist.okNodes[n])

\* C1: add_edge with an endpoint that was never added returns NodeNotFound,
\* creates no node and changes no count; hence every stored edge has both
\* endpoints among the added nodes.
C1_AddEdgeUnknownNode == [][C1_Step]_vars /\ []C1_EdgesJoinAddedNodes

\* add_edge has just failed on a graph that holds a node and an edge.
C1_Witness ==
    /\ ret.call.op = "add_edge"
    /\ ret.res.kind = "NodeNotFound"
    /\ ret.call.name \in DOMAIN GRAPH_REGISTRY
    /\ ret.call.src \in hist.okNodes[ret.call.name]
    /\ ret.call.dst \notin hist.okNodes[ret.call.name]
    /\ Len(GRAPH_REGISTRY[ret.call.name].edges) >= 1

\* ---- C2 ----
\* C2: in every graph of the registry the id mapping is defined exactly on
\* the ids add_node accepted, maps them one-to-one onto the graph's nodes
\* 0 .. node_count-1, each node holding the id mapped to it; so node_count
\* is the number of accepted ids.
C2_MappingBijection ==
    \A n \in DOMAIN GRAPH_REGISTRY :
        LET g == GRAPH_REGISTRY[n]
            m == g.node_mapping
        IN /\ DOMAIN m = hist.okNodes[n]
           /\ GraphType_node_count(g) = Cardinality(hist.okNodes[n])
           /\ \A x, y \in DOMAIN m : m[x] = m[y] => x = y
           /\ {m[x] : x \in DOMAIN m} = 0..(GraphType_node_count(g) - 1)
           /\ \A x \in DOMAIN m : g.nodes[m[x] + 1] = x
           /\ (ret.call.op = "node_count" /\ ret.call.name = n)
                  => ret.res.count = Cardinality(hist.okNodes[n])

\* A graph holds two nodes and add_node has just refused a third call.
C2_Witness ==
    /\ ret.call.op = "add_node"
    /\ ret.res.kind = "InvalidArgument"
    /\ ret.call.name \in DOMAIN GRAPH_REGISTRY
    /\ GraphType_node_count(GRAPH_REGISTRY[ret.call.name]) = 2

\* ---- C3 ----
\* C3: a step that is create_graph on a name of the registry returns
\* GraphAlreadyExists for that name and leaves the registry as it was.
C3_CreateExisting ==
    [][LET c == ret'.call IN
       (c.op = "create_graph" /\ c.name \in DOMAIN GRAPH_REGISTRY)
       => /\ ret'.res.kind = "GraphAlreadyExists"
          /\ ret'.res.name = c.name
          /\ GRAPH_REGISTRY' = GRAPH_REGISTRY]_vars

\* create_graph has just been refused for a graph that holds a node and an
\* edge and has the other direction than the one asked for.
C3_Witness ==
    /\ ret.call.op = "create_graph"
    /\ ret.res.kind = "GraphAlreadyExists"
    /\ ret.call.name \in DOMAIN GRAPH_REGISTRY
    /\ GRAPH_REGISTRY[ret.call.name].directed # ret.call.directed
    /\ Len(GRAPH_REGISTRY[ret.call.name].edges) >= 1
    /\ DOMAIN GRAPH_REGISTRY = Names

\* ---- C4 ----
\* C4: a step that is one of the operations keyed by a graph name, on a name
\* that is not in the registry, returns GraphNotFound for that name (never
\* NodeNotFound) and leaves the registry as it was.
C4_GraphNotFound ==
    [][LET c == ret'.call IN
       (c.op \in KeyedOps /\ c.name \notin DOMAIN GRAPH_REGISTRY)
       => /\ ret'.res.kind = "GraphNotFound"
          /\ ret'.res.name = c.name
          /\ GRAPH_REGISTRY' = GRAPH_REGISTRY]_vars

\* A degree query has just returned GraphNotFound for a name that was
\* created and dropped, while the other graph is still there.
C4_Witness ==
    /\ ret.call.op = "get_node_in_degree"
    /\ ret.res.kind = "GraphNotFound"
    /\ ret.call.name \in hist.dropped
    /\ ret.call.name \notin DOMAIN GRAPH_REGISTRY
    /\ DOMAIN GRAPH_REGISTRY # {}

\* ---- C5 ----
\* C5 as stated: add_node for an id the graph already holds returns an
\* AlreadyExists error and leaves the registry as it was.
C5_Original ==
    [][LET c == ret'.call IN
       (/\ c.op = "add_node"
        /\ c.name \in DOMAIN GRAPH_REGISTRY
        /\ c.src \in hist.okNodes[c.name])
       => /\ ret'.res.kind \in {"GraphAlreadyExists", "NodeAlreadyExists", "AlreadyExists"}
          /\ GRAPH_REGISTRY' = GRAPH_REGISTRY]_vars

\* C5 amended: add_node for an id the graph already holds returns
\* InvalidArgument (its message names the id) and leaves the registry as it
\* was: node_count, edge_count and the id mapping keep their values.
C5_AddNodeDuplicate ==
    [][LET c == ret'.call IN
       (/\ c.op = "add_node"
        /\ c.name \in DOMAIN GRAPH_REGISTRY
        /\ c.src \in hist.okNodes[c.name])
       => /\ ret'.res.kind = "InvalidArgument"
          /\ ret'.res.id = c.src
          /\ GRAPH_REGISTRY' = GRAPH_REGISTRY]_vars

\* add_node has just been refused on a graph that holds that id and an edge.
C5_Witness ==
    /\ ret.call.op = "add_node"
    /\ ret.res.kind = "InvalidArgument"
    /\ ret.call.name \in DOMAIN GRAPH_REGISTRY
    /\ ret.call.src \in DOMAIN GRAPH_REGISTRY[ret.call.name].node_mapping
    /\ Len(GRAPH_REGISTRY[ret.call.name].edges) >= 1

\* ---- C7 ----
\* The registry holds exactly the names created and not yet dropped, and
\* that is what list_graphs returns.
C7_Live ==
    /\ DOMAIN GRAPH_REGISTRY = hist.live
    /\ ret.call.op = "list_graphs" => (ret.res.kind = "Ok" /\ ret.res.names = hist.live)

\* A name leaves the registry only by a drop_graph of that name that returns
\* Ok, and a create_graph that returns Ok leaves a graph of the direction
\* asked for, with no node and no edge.
C7_Step ==
    LET c == ret'.call IN
    /\ \A n \in DOMAIN GRAPH_REGISTRY \ DOMAIN GRAPH_REGISTRY' :
           c.op = "drop_graph" /\ c.name = n /\ ret'.res.kind = "Ok"
    /\ (c.op = "create_graph" /\ ret'.res.kind = "Ok")
       => /\ c.name \in DOMAIN GRAPH_REGISTRY'
          /\ GraphType_node_count(GRAPH_REGISTRY'[c.name]) = 0
          /\ GraphType_edge_count(GRAPH_REGISTRY'[c.name]) = 0
          /\ DOMAIN GRAPH_REGISTRY'[c.name].node_mapping = {}
          /\ GRAPH_REGISTRY'[c.name].directed = c.directed

\* C7: a named graph lives from its create to its drop: list_graphs returns
\* the names created and not yet dropped, only drop_graph removes a name,
\* and a name created again denotes a fresh, empty graph.
C7_Lifetime == []C7_Live /\ [][C7_Step]_vars

\* list_graphs has just returned the one name that is live, a graph with a
\* node, and not the other name, which was created and dropped.
C7_Witness ==
    /\ ret.call.op = "list_graphs"
    /\ ret.res.names = {"a"}
    /\ hist.dropped = {"b"}
    /\ GraphType_node_count(GRAPH_REGISTRY["a"]) >= 1

\* ---- C8 ----
\* edge_count of every graph is the number of add_edge calls that returned
\* Ok since its create.
C8_Count ==
    \A n \in DOMAIN GRAPH_REGISTRY :
        /\ GraphType_edge_count(GRAPH_REGISTRY[n]) = hist.okEdges[n]
        /\ (ret.call.op = "edge_count" /\ ret.call.name = n)
               => ret.res.count = hist.okEdges[n]

\* add_edge between two added nodes returns Ok and stores one more edge,
\* whatever the graph already holds and also when src = dst.
C8_Step ==
    LET c == ret'.call IN
    (/\ c.op = "add_edge"
     /\ c.name \in DOMAIN GRAPH_REGISTRY
     /\ {c.src, c.dst} \subseteq hist.okNodes[c.name])
    => /\ ret'.res.kind = "Ok"
       /\ GraphType_edge_count(GRAPH_REGISTRY'[c.name])
              = GraphType_edge_count(GRAPH_REGISTRY[c.name]) + 1

\* C8: self-loops and parallel edges are retained: edge_count is the number
\* of add_edge calls that returned Ok, and add_edge between added nodes
\* returns Ok also for src = dst and for a pair that is already joined.
C8_EdgesRetained == []C8_Count /\ [][C8_Step]_vars

\* edge_count has just returned 2 for a graph whose two edges are the same
\* self-loop.
C8_Witness ==
    /\ ret.call.op = "edge_count"
    /\ ret.res.kind = "Ok"
    /\ ret.res.count = 2
    /\ LET g == GRAPH_REGISTRY[ret.call.name]
       IN g.edges[1] = g.edges[2] /\ g.edges[1].s = g.edges[1].t

(***************************************************************************)
(* Properties of the registry lock (SpecConc).                             *)
(***************************************************************************)
\* Thread t is inside a registry function, past taking the guard.
Holding(t) == pc[t] \in {"locked", "tested"}

\* ---- C6 ----
\* C6: no thread is inside create_graph, drop_graph, add_node or add_edge
\* while another thread is inside any registry function; the lock's state
\* names the one writer or the readers that are inside.
C6_WriterExclusive ==
    /\ \A t \in Threads :
           (Holding(t) /\ tcall[t].op \in WriteOps)
           => \A u \in Threads \ {t} : ~Holding(u)
    /\ \A t \in Threads :
           Holding(t) <=> (rwlock.writer = t \/ t \in rwlock.readers)
    /\ rwlock.writer # NoThread => rwlock.readers = {}

\* One thread is inside add_node on an existing graph while the other has
\* called node_count and waits for the lock.
C6_Witness ==
    \E t, u \in Threads :
        /\ Holding(t) /\ tcall[t].op = "add_node"
        /\ tcall[t].name \in DOMAIN GRAPH_REGISTRY
        /\ pc[u] = "waiting" /\ tcall[u].op = "node_count"

\* Two threads are inside read functions at the same time.
C6_ReadersShare ==
    \E t, u \in Threads :
        /\ t # u /\ Holding(t) /\ Holding(u)
        /\ tcall[t].op \in ReadOps /\ tcall[u].op \in ReadOps

(***************************************************************************)
(* Properties of the array-based functions (SpecAlg).                      *)
(***************************************************************************)
\* The functions that take a weight per edge.
C9_WeightedAlgs ==
    {"compute_bellman_ford", "compute_floyd_warshall", "compute_prim_mst",
     "compute_kruskal_mst", "compute_tsp"}

\* ---- C9 ----
\* C9: a call whose src and dst differ in length returns InvalidArgument;
\* so does a call of Bellman-Ford, Floyd-Warshall, Prim, Kruskal or TSP
\* whose weights differ in length from src, and a call of parallel PageRank
\* whose weights are not empty and differ in length from src.
C9_LengthMismatch ==
    algRet # NoAlgRes =>
        /\ Len(algCall.src) # Len(algCall.dst) => algRet.kind = "InvalidArgument"
        /\ (algCall.alg \in C9_WeightedAlgs /\ Len(algCall.weights) # Len(algCall.src))
               => algRet.kind = "InvalidArgument"
        /\ (/\ algCall.alg = "compute_pagerank_parallel"
            /\ algCall.weights # <<>>
            /\ Len(algCall.weights) # Len(algCall.src))
               => algRet.kind = "InvalidArgument"

\* Bellman-Ford was called with two edges, a source that occurs in them and
\* one weight, and returned InvalidArgument.
C9_Witness ==
    /\ algCall.alg = "compute_bellman_ford"
    /\ Len(algCall.src) = 2 /\ Len(algCall.dst) = 2 /\ Len(algCall.weights) = 1
    /\ algCall.node \in NodeSet(algCall.src, algCall.dst)
    /\ algCall.lib = "Ok"
    /\ algRet.kind = "InvalidArgument"

\* The functions C10 names: traversal and paths, five centralities, community
\* detection, link prediction, graph metrics, MST, the parallel counterparts
\* of these, and subgraphs.
C10_RejectEmpty ==
    {"compute_dijkstra", "compute_bfs", "compute_dfs", "compute_shortest_distance",
     "compute_bellman_ford", "compute_floyd_warshall", "compute_betweenness",
     "compute_closeness", "compute_eigenvector", "compute_katz", "compute_harmonic",
     "compute_louvain", "compute_connected_components", "compute_label_propagation",
     "compute_girvan_newman", "compute_spectral_clustering", "compute_infomap",
     "compute_jaccard", "compute_adamic_adar", "compute_preferential_attachment",
     "compute_resource_allocation", "compute_diameter", "compute_radius",
     "compute_avg_clustering", "compute_avg_path_length", "compute_transitivity",
     "compute_triangle_count", "compute_assortativity", "compute_graph_density",
     "compute_prim_mst", "compute_kruskal_mst", "compute_bfs_parallel",
     "compute_shortest_paths_parallel", "compute_components_parallel",
     "compute_clustering_parallel", "compute_triangles_parallel", "compute_ego_graph",
     "compute_k_hop_neighbors", "compute_induced_subgraph"}

\* ---- C10 ----
\* C10: each of these functions, called with empty src and dst, returns
\* InvalidArgument, whatever its other arguments, and no Ok result.
C10_EmptyRejected ==
    (/\ algRet # NoAlgRes
     /\ algCall.alg \in C10_RejectEmpty
     /\ algCall.src = <<>> /\ algCall.dst = <<>>)
    => (algRet.kind = "InvalidArgument" /\ ~algRet.empty)

\* Louvain was called with the empty edge list, the library set to succeed,
\* and returned InvalidArgument for the empty graph.
C10_Witness ==
    /\ algCall.alg = "compute_louvain"
    /\ algCall.src = <<>> /\ algCall.dst = <<>>
    /\ algCall.lib = "Ok"
    /\ algRet.kind = "InvalidArgument"
    /\ algRet.msg = "Cannot compute on empty graph"

\* The functions that answer the empty edge list with an empty result.
C11_EmptyOk ==
    {"compute_voterank", "compute_local_reaching", "compute_laplacian",
     "compute_max_clique", "compute_independent_set", "compute_vertex_cover"}

\* ---- C11 ----
\* C11: called with empty src and dst, max clique, independent set, vertex
\* cover, VoteRank, local reaching and Laplacian centrality return Ok with
\* an empty result, and TSP returns an error.
C11_EmptyResult ==
    (algRet # NoAlgRes /\ algCall.src = <<>> /\ algCall.dst = <<>>)
    => /\ algCall.alg \in C11_EmptyOk => (algRet.kind = "Ok" /\ algRet.empty)
       /\ algCall.alg = "compute_tsp" => algRet.kind = "InvalidArgument"

\* Max clique was called with the empty edge list and returned Ok, empty.
C11_Witness ==
    /\ algCall.alg = "compute_max_clique"
    /\ algCall.src = <<>> /\ algCall.dst = <<>>
    /\ algRet.kind = "Ok" /\ algRet.empty

\* TSP was called with the empty edge list and no weights and returned the
\* error for the empty graph.
C11_WitnessTsp ==
    /\ algCall.alg = "compute_tsp"
    /\ algCall.src = <<>> /\ algCall.dst = <<>> /\ algCall.weights = <<>>
    /\ algRet.msg = "Cannot compute TSP on empty graph"

\* ---- C12 ----
\* C12: compute_pagerank_parallel called with the arguments of a
\* compute_pagerank call (and no weights) has the same outcome: both fail or
\* both succeed, with the same node ids; the empty edge list included.  The
\* ranks are numbers of the graph library and are not compared here; the
\* library call of compute_pagerank is taken to succeed.
C12_PagerankAgree ==
    (algRet # NoAlgRes /\ algCall.alg = "compute_pagerank" /\ algCall.lib = "Ok")
    => LET par == compute_pagerank_parallel(algCall.src, algCall.dst, <<>>)
       IN /\ (par.kind = "Ok") <=> (algRet.kind = "Ok")
          /\ par.empty = algRet.empty

\* ---- C14 ----
\* C14: compute_bfs and compute_dfs, called with a non-empty edge list in
\* which the source id does not occur, return NodeNotFound.
C14_SourceAbsent ==
    (/\ algRet # NoAlgRes
     /\ algCall.alg \in {"compute_bfs", "compute_dfs"}
     /\ algCall.src # <<>> /\ Len(algCall.src) = Len(algCall.dst)
     /\ algCall.node \notin NodeSet(algCall.src, algCall.dst))
    => algRet.kind = "NodeNotFound"

\* ---- C13 ----
\* C13: compute_bfs_parallel called with the arguments of a compute_bfs call,
\* and compute_shortest_paths_parallel called with those of a
\* compute_dijkstra call whose library call succeeds, return the same kind
\* of result: both Ok, or the same error kind, an absent source included.
\* The visit order and the distances on success are values of the graph
\* library and are not compared here.
C13_ParallelAgree ==
    (algRet # NoAlgRes /\ algCall.lib = "Ok")
    => /\ algCall.alg = "compute_bfs"
          => compute_bfs_parallel(algCall.src, algCall.dst, algCall.node).kind
                 = algRet.kind
       /\ algCall.alg = "compute_dijkstra"
          => compute_shortest_paths_parallel(algCall.src, algCall.dst, algCall.node).kind
                 = algRet.kind

\* ---- C17 ----
\* C17: compute_personalized_pagerank returns InvalidArgument whenever
\* damping is not inside the open interval (0,1), the endpoints 0 and 1
\* included, or max_iter is 0, whatever the graph library would answer.
C17_DampingOpenInterval ==
    (/\ algRet # NoAlgRes
     /\ algCall.alg = "compute_personalized_pagerank"
     /\ \/ algCall.damping <= 0
        \/ algCall.damping >= DampingOne
        \/ algCall.n = 0)
    => algRet.kind = "InvalidArgument"

\* ---- C20 ----
\* The generators reject out-of-range parameters with InvalidArgument and
\* produce no graph: Erdos-Renyi when n = 0 or p is outside [0, 1];
\* Barabasi-Albert when n = 0, m = 0 or m > n; Watts-Strogatz when n = 0,
\* k is odd, k >= n or beta is outside [0, 1].
C20_OutOfRange ==
    LET n == algCall.n
        m == algCall.target
        p == algCall.damping
        bad == \/ /\ algCall.alg = "generate_erdos_renyi"
                  /\ (n = 0 \/ p < 0 \/ p > ProbOne)
               \/ /\ algCall.alg = "generate_barabasi_albert"
                  /\ (n = 0 \/ m = 0 \/ m > n)
               \/ /\ algCall.alg = "generate_watts_strogatz"
                  /\ (n = 0 \/ m % 2 = 1 \/ m >= n \/ p < 0 \/ p > ProbOne)
    IN (algRet # NoAlgRes /\ bad) => algRet.kind = "InvalidArgument"

\* Watts-Strogatz was called with an odd k below n and a beta in range, and
\* returned InvalidArgument.
C20_Witness ==
    /\ algCall.alg = "generate_watts_strogatz"
    /\ algCall.n = 3 /\ algCall.target = 1 /\ algCall.damping = 5
    /\ algRet.kind = "InvalidArgument"
    /\ algRet.msg = "k must be even and < n"

\* ---- C15 ----
\* compute_dijkstra returns every distinct node id of the edge list exactly
\* once: with its hop distance (0 for the source) when it is reachable from
\* the source and +infinity when it is not; compute_shortest_distance returns
\* that same value for one target, and infinity rather than an error when the
\* target is unreachable.
C15_DijkstraDistances ==
    LET src == algCall.src
        dst == algCall.dst
        nodes == NodeSet(src, dst)
        source == algCall.node
        target == algCall.target
        val == algRet.val
        Adjacent(u, v) ==
            \E i \in 1..Len(src) : {src[i], dst[i]} = {u, v}
        \* d is the hop distance of every node: 0 at the source, one more
        \* than some neighbour's elsewhere, never more than one above a
        \* neighbour's, infinite where no neighbour has a distance.
        HopDistance(d) ==
            /\ DOMAIN d = nodes
            /\ d[source] = 0
            /\ \A n \in nodes \ {source} :
                  \/ d[n] = Infinity
                  \/ d[n] >= 1 /\ \E m \in nodes : Adjacent(m, n) /\ d[m] = d[n] - 1
            /\ \A u \in nodes, v \in nodes :
                  (Adjacent(u, v) /\ d[u] # Infinity) => d[v] <= d[u] + 1
        called == /\ algRet # NoAlgRes
                  /\ algCall.lib = "Ok"
                  /\ src # <<>> /\ Len(src) = Len(dst)
                  /\ source \in nodes
    IN /\ (called /\ algCall.alg = "compute_dijkstra")
          => (algRet.kind = "Ok" /\ HopDistance(val))
       /\ (called /\ algCall.alg = "compute_shortest_distance" /\ target \in nodes)
          => /\ algRet.kind = "Ok"
             /\ Len(val) = 1
             /\ \E d \in [nodes -> 0..MaxLen \cup {Infinity}] :
                   HopDistance(d) /\ val[1] = d[target]

\* compute_dijkstra from node 1 over the edges 1-2 and 2-3 returned 0, 1
\* and 2.
C15_Witness ==
    /\ algCall.alg = "compute_dijkstra"
    /\ algCall.src = <<1, 2>> /\ algCall.dst = <<2, 3>> /\ algCall.node = 1
    /\ algRet.kind = "Ok"
    /\ algRet.val = [n \in {1, 2, 3} |-> n - 1]

\* compute_dijkstra from node 1 over the edges 1-2 and 3-3 returned
\* infinity for node 3.
C15_WitnessUnreachable ==
    /\ algCall.alg = "compute_dijkstra"
    /\ algCall.src = <<1, 3>> /\ algCall.dst = <<2, 3>> /\ algCall.node = 1
    /\ algRet.kind = "Ok"
    /\ algRet.val[3] = Infinity

\* ---- C16 ----
\* compute_bellman_ford accepts negative edge weights: when a negative cycle
\* can be reached from the source the whole call fails with GraphError and
\* no distances are returned, and otherwise the result holds one distance per
\* node of the graph, infinity for the nodes the source is not connected to.
\* A cycle goes over each of its edges once, in either direction.
C16_BellmanFord ==
    LET src == algCall.src
        dst == algCall.dst
        weights == algCall.weights
        nodes == NodeSet(src, dst)
        source == algCall.node
        val == algRet.val
        Linked(u, v) == \E i \in 1..Len(src) : {src[i], dst[i]} = {u, v}
        Near(S) == S \cup {v \in nodes : \E u \in S : Linked(u, v)}
        Connected == Near(Near(Near({source})))
        \* The edge w[k][1] walked from From(w, k) to To(w, k).
        From(w, k) == IF w[k][2] THEN src[w[k][1]] ELSE dst[w[k][1]]
        To(w, k) == IF w[k][2] THEN dst[w[k][1]] ELSE src[w[k][1]]
        Walks == UNION {[1..k -> (1..Len(src)) \X BOOLEAN] : k \in 1..Len(src)}
        RECURSIVE Weight(_, _)
        Weight(w, k) == IF k = 0 THEN 0 ELSE weights[w[k][1]] + Weight(w, k - 1)
        NegativeCycle ==
            \E w \in Walks :
                /\ \A j \in 1..Len(w), k \in 1..Len(w) : j # k => w[j][1] # w[k][1]
                /\ From(w, 1) \in Connected
                /\ To(w, Len(w)) = From(w, 1)
                /\ \A k \in 1..(Len(w) - 1) : To(w, k) = From(w, k + 1)
                /\ Weight(w, Len(w)) < 0
        called == /\ algRet # NoAlgRes
                  /\ algCall.alg = "compute_bellman_ford"
                  /\ src # <<>> /\ Len(src) = Len(dst) /\ Len(src) = Len(weights)
                  /\ source \in nodes
    IN called =>
          /\ NegativeCycle
                => /\ algRet.kind = "GraphError"
                   /\ val = EmptyMap
          /\ ~NegativeCycle
                => /\ algRet.kind = "Ok"
                   /\ DOMAIN val = nodes
                   /\ \A n \in nodes \ Connected : val[n] = Infinity

\* ---- C18 ----
\* For every connected weighted graph compute_prim_mst and
\* compute_kruskal_mst return the same total_weight, and each selects
\* node_count - 1 edges whose weights sum to that total.
C18_PrimKruskal ==
    LET src == algCall.src
        dst == algCall.dst
        weights == algCall.weights
        nodes == NodeSet(src, dst)
        mst_edges == algRet.val[1]
        total_weight == algRet.val[2]
        Near(T, S) == S \cup {dst[i] : i \in {j \in T : src[j] \in S}}
                        \cup {src[i] : i \in {j \in T : dst[j] \in S}}
        \* The edges of T join every node to the first one.
        Spans(T) == Near(T, Near(T, Near(T, {src[1]}))) = nodes
        SumOf(es) == IF Len(es) = 0 THEN 0
                     ELSE IF Len(es) = 1 THEN es[1][3]
                     ELSE IF Len(es) = 2 THEN es[1][3] + es[2][3]
                     ELSE es[1][3] + es[2][3] + es[3][3]
        Other == IF algCall.alg = "compute_prim_mst"
                 THEN compute_kruskal_mst(src, dst, weights, algCall.lib)
                 ELSE compute_prim_mst(src, dst, weights, algCall.lib)
        called == /\ algRet # NoAlgRes
                  /\ algCall.alg \in {"compute_prim_mst", "compute_kruskal_mst"}
                  /\ algCall.lib = "Ok"
                  /\ src # <<>> /\ Len(src) = Len(dst) /\ Len(src) = Len(weights)
                  /\ Spans(1..Len(src))
    IN called =>
          /\ algRet.kind = "Ok"
          /\ Other.kind = "Ok"
          /\ total_weight = Other.val[2]
          /\ Len(mst_edges) = Cardinality(nodes) - 1
          /\ SumOf(mst_edges) = total_weight
          /\ \A i \in 1..Len(mst_edges) :
                \E j \in 1..Len(src) : mst_edges[i] = <<src[j], dst[j], weights[j]>>

\* compute_kruskal_mst over the edges 1-2 of weight 1 and 1-2 of weight -1
\* returned the one edge of weight -1.
C18_Witness ==
    /\ algCall.alg = "compute_kruskal_mst"
    /\ algCall.src = <<1, 1>> /\ algCall.dst = <<2, 2>> /\ algCall.weights = <<1, -1>>
    /\ algRet.kind = "Ok"
    /\ algRet.val = <<(<<(<<1, 2, -1>>)>>), -1>>

\* ---- C21 ----
\* compute_induced_subgraph returns exactly the edges of the input whose
\* both endpoints lie in the given node set: an empty node set is
\* InvalidArgument, and a node set with a single node yields zero edges.
\* What the library's induced_subgraph answers is not known from the
\* repository: the call made is held against the claim under every answer
\* the library may give, and the claim is taken to hold of the call when
\* it does under one of them.
C21_Original ==
    LET src == algCall.src
        dst == algCall.dst
        node_ids == algCall.node_ids
        chosen == {node_ids[i] : i \in 1..Len(node_ids)}
        Given(u, v) == {i \in 1..Len(src) : {src[i], dst[i]} = {u, v}}
        Returned(val, u, v) == {k \in 1..Len(val) : {val[k][1], val[k][2]} = {u, v}}
        called == algRet # NoAlgRes /\ algCall.alg = "compute_induced_subgraph"
        answered == called /\ src # <<>> /\ Len(src) = Len(dst) /\ node_ids # <<>>
        Holds(r) ==
            /\ r.kind = "Ok"
            /\ \A u \in NodeSet(src, dst), v \in NodeSet(src, dst) :
                  Cardinality(Returned(r.val, u, v)) =
                      IF u \in chosen /\ v \in chosen THEN Cardinality(Given(u, v)) ELSE 0
            /\ \A k \in 1..Len(r.val) : r.val[k][1] \in chosen /\ r.val[k][2] \in chosen
            /\ Cardinality(chosen) = 1 => r.val = <<>>
    IN /\ (called /\ node_ids = <<>>) => algRet.kind = "InvalidArgument"
       /\ answered =>
             \E lib \in SubgraphOutcomes :
                 Holds(compute_induced_subgraph(src, dst, node_ids, lib))

\* ---- C22 ----
\* compute_graph_density returns a value between 0.0 and 1.0 for every
\* non-empty edge list: 1.0 for a complete undirected graph, and for the same
\* edge list read as directed exactly half the undirected value.
C22_DensityRange ==
    LET src == algCall.src
        dst == algCall.dst
        nodes == NodeSet(src, dst)
        num == algRet.val[1]
        den == algRet.val[2]
        undirected == compute_graph_density(src, dst, FALSE).val
        \* Every two distinct nodes are joined by exactly one edge, and no
        \* edge joins a node to itself.
        Complete ==
            /\ \A i \in 1..Len(src) : src[i] # dst[i]
            /\ \A u \in nodes : \A v \in nodes \ {u} :
                  Cardinality({i \in 1..Len(src) : {src[i], dst[i]} = {u, v}}) = 1
        called == /\ algRet # NoAlgRes
                  /\ algCall.alg = "compute_graph_density"
                  /\ src # <<>> /\ Len(src) = Len(dst)
    IN called =>
          /\ algRet.kind = "Ok"
          /\ den > 0 /\ 0 <= num /\ num <= den
          /\ (~algCall.directed /\ Complete) => num = den
          /\ algCall.directed => 2 * num * undirected[2] = undirected[1] * den

\* ---- C23 ----
\* Every node-aligned result lists each distinct external id occurring in
\* src or dst exactly once, all of its arrays have the same length, and the
\* value at index i is the one computed for the node node_ids[i].
C23_NodeAligned ==
    LET nodes == NodeSet(algCall.src, algCall.dst)
        rows == algRet.val
        returned == algRet # NoAlgRes /\ algRet.kind = "Ok"
    IN /\ (returned /\ algCall.alg \in {"compute_degree", "compute_label_propagation",
                                         "compute_shortest_paths_parallel",
                                         "compute_personalized_pagerank"})
          => /\ \A n \in nodes : Cardinality({i \in 1..Len(rows) : rows[i][1] = n}) = 1
             /\ \A i \in 1..Len(rows) : rows[i][1] \in nodes
             /\ \A i \in 1..Len(rows), j \in 1..Len(rows) : Len(rows[i]) = Len(rows[j])
       /\ (returned /\ algCall.alg \in {"compute_degree", "compute_label_propagation",
                                         "compute_personalized_pagerank"})
          => \A i \in 1..Len(rows) : \A k \in 2..Len(rows[i]) : rows[i][k][2] = rows[i][1]
       /\ (returned /\ algCall.alg \in {"compute_dijkstra", "compute_bellman_ford"})
          => DOMAIN rows = nodes

(***************************************************************************)
(* Properties of the last-error slot (SpecFfi).                            *)
(***************************************************************************)
\* What the reading functions return for the graph named n: its counts and
\* the degrees of every id.
Observed(reg, n) ==
    <<node_count(reg, n).res, edge_count(reg, n).res,
      [i \in Ids |-> get_node_in_degree(reg, n, i).res],
      [i \in Ids |-> get_node_out_degree(reg, n, i).res]>>

\* ---- C28 ----
\* A step that is add_node or add_edge on one graph leaves what the reading
\* functions return for every other name as it was; a step that is a
\* reading function, or that fails, leaves the registry as it was; a step
\* a thread takes (its fpc changes) inside an entry point over edge arrays
\* or a generator leaves the registry as it was, and what the entry point
\* returns, and the message it goes on to set, are what it returns and sets
\* when the registry is empty.
C28_Step ==
    LET c == ret'.call
        \* The call is of an entry point over edge arrays or of a generator.
        ArrayBased(f) == "alg" \in DOMAIN f.call
    IN
    /\ c.op \in {"add_node", "add_edge"}
           => \A n \in Names \ {c.name} :
                  Observed(GRAPH_REGISTRY', n) = Observed(GRAPH_REGISTRY, n)
    /\ (c.op \in ReadOps \/ ret'.res.kind # "Ok") => GRAPH_REGISTRY' = GRAPH_REGISTRY
    /\ \A t \in Threads :
           ((ArrayBased(fcall[t]) \/ ArrayBased(fcall'[t])) /\ fpc'[t] # fpc[t])
               => /\ GRAPH_REGISTRY' = GRAPH_REGISTRY
                  /\ fpc[t] = "body"
                         => \E out \in {FfiRun(EmptyMap, fcall[t])} :
                                fret'[t] = FfiRet(fcall[t].fn, out.value, out.err, out.err, out.msg)

C28_Frame == [][C28_Step]_vars

\* add_edge on graph "a" has just returned Ok while graph "b" holds a node
\* and an edge, and onager_compute_dijkstra has returned its error to the
\* same caller before, when a graph was in the registry.
C28_Witness ==
    /\ ret.call.op = "add_edge"
    /\ ret.call.name = "a"
    /\ ret.res.kind = "Ok"
    /\ "b" \in DOMAIN GRAPH_REGISTRY
    /\ Len(GRAPH_REGISTRY["b"].edges) = 1
    /\ fret[FrameCaller].fn = "onager_compute_dijkstra"
    /\ fret[FrameCaller].err
    /\ LAST_ERROR # Null

\* The sum of the counts get_node_in_degree (or, with out = TRUE,
\* get_node_out_degree) returns for the ids of S on the graph named n.
RECURSIVE DegreeSum(_, _, _, _)
DegreeSum(reg, n, S, out) ==
    IF S = {} THEN 0
    ELSE LET id == CHOOSE x \in S : TRUE
         IN (IF out THEN get_node_out_degree(reg, n, id).res.count
                    ELSE get_node_in_degree(reg, n, id).res.count)
                + DegreeSum(reg, n, S \ {id}, out)

\* ---- C29 ----
\* On a directed named graph the in-degrees of the added nodes sum to the
\* out-degrees' sum and to edge_count; on an undirected one in_degree and
\* out_degree of an added node return the same value; on either, both fail
\* with NodeNotFound for an id add_node never accepted.
C29_Degrees ==
    \A n \in DOMAIN GRAPH_REGISTRY :
        LET added == hist.okNodes[n] IN
        /\ GRAPH_REGISTRY[n].directed
               => /\ DegreeSum(GRAPH_REGISTRY, n, added, FALSE)
                         = edge_count(GRAPH_REGISTRY, n).res.count
                  /\ DegreeSum(GRAPH_REGISTRY, n, added, TRUE)
                         = edge_count(GRAPH_REGISTRY, n).res.count
        /\ ~GRAPH_REGISTRY[n].directed
               => \A id \in added :
                      /\ get_node_in_degree(GRAPH_REGISTRY, n, id).res.kind = "Ok"
                      /\ get_node_in_degree(GRAPH_REGISTRY, n, id).res
                             = get_node_out_degree(GRAPH_REGISTRY, n, id).res
        /\ \A id \in Ids \ added :
               /\ get_node_in_degree(GRAPH_REGISTRY, n, id).res = NodeNotFound(id)
               /\ get_node_out_degree(GRAPH_REGISTRY, n, id).res = NodeNotFound(id)

\* The directed graph "a" holds two edges from node 1 to node 2, and the
\* undirected graph "b" holds node 1 only.
C29_Witness ==
    /\ DOMAIN GRAPH_REGISTRY = {"a", "b"}
    /\ GRAPH_REGISTRY["a"].directed
    /\ edge_count(GRAPH_REGISTRY, "a").res.count = 2
    /\ get_node_in_degree(GRAPH_REGISTRY, "a", 2).res.count = 2
    /\ get_node_out_degree(GRAPH_REGISTRY, "a", 1).res.count = 2
    /\ ~GRAPH_REGISTRY["b"].directed
    /\ hist.okNodes["b"] = {1}

\* Each thread has made one call and both have returned.
BothReturned ==
    /\ ncalls = 2
    /\ \A t \in Threads : pc[t] = "idle" /\ tret[t] # NoRes

\* The results and the registry are those of the two calls made one after
\* the other, in one of the two orders, on the registry r0.
InSomeOrder(r0) ==
    \E t \in Threads, u \in Threads :
        /\ t # u
        /\ LET a == Run(r0, tcall[t])
               b == Run(a.reg, tcall[u])
           IN tret[t] = a.res /\ tret[u] = b.res /\ GRAPH_REGISTRY = b.reg

\* ---- C25 ----
\* Two registry calls made by two threads at the same time give the results
\* and the registry of the same calls made one after the other, in some
\* order.  So of two create_graph of a name the registry did not hold, one
\* returns Ok and the other GraphAlreadyExists; and of two add_node of an id
\* a graph did not hold, one returns Ok, the other does not, and the graph's
\* node count is one more than before.
C25_Atomic ==
    \A r0 \in ConcStart :
        (GRAPH_REGISTRY = r0) =>
            [](BothReturned =>
                /\ InSomeOrder(r0)
                /\ (/\ tcall[1].op = "create_graph" /\ tcall[2].op = "create_graph"
                    /\ tcall[1].name = tcall[2].name /\ tcall[1].name \notin DOMAIN r0)
                       => {tret[1].kind, tret[2].kind} = {"Ok", "GraphAlreadyExists"}
                /\ (/\ tcall[1].op = "add_node" /\ tcall[2].op = "add_node"
                    /\ tcall[1].name = tcall[2].name /\ tcall[1].src = tcall[2].src
                    /\ tcall[1].name \in DOMAIN r0
                    /\ tcall[1].src \notin DOMAIN r0[tcall[1].name].node_mapping)
                       => /\ {tret[1].kind, tret[2].kind} = {"Ok", "InvalidArgument"}
                          /\ GraphType_node_count(GRAPH_REGISTRY[tcall[1].name])
                                 = GraphType_node_count(r0[tcall[1].name]) + 1)

\* Both threads were inside add_node of node 2 on graph "a", which held node 1
\* only; thread 1 was told Ok and thread 2 that the node exists.
C25_Witness ==
    /\ BothReturned
    /\ tcall[1] = Call("add_node", "a", FALSE, 2, 0, 0)
    /\ tcall[2] = Call("add_node", "a", FALSE, 2, 0, 0)
    /\ tret[1] = OkUnit
    /\ tret[2] = NodeAlreadyExists(2)
    /\ GraphType_node_count(GRAPH_REGISTRY["a"]) = 2

\* ---- C24 ----
\* The last-error message is per thread: what a thread reads through the
\* pointer onager_last_error() gives it after its own failed call is the
\* message of that call, whatever the other threads have called in between.
C24_ThreadLocal ==
    \A t \in Threads :
        (fpc[t] = "idle" /\ fret[t].err /\ seen[t] # NoSeen /\ seen[t].msg # Unread)
            => (seen[t].ptr # Null /\ seen[t].msg = fret[t].msg)

\* Thread t is the only one that has called an entry point.
Alone(t) ==
    \A u \in Threads \ {t} : fpc[u] = "idle" /\ fret[u] = NoFfiRet /\ seen[u] = NoSeen

\* ---- C30 ----
\* Every error string put into the slot is, at any moment, in exactly one of
\* three places: still in the slot, in the local old of the one call whose
\* swap took it out and has yet to drop it, or dropped once.  It is never
\* dropped twice and never out of all three.
C30_FreedOnce ==
    \A p \in 1..Len(heap) :
        heap[p].msg[1] \notin {"JSON", "VERSION"} =>
            LET holders == {t \in Threads : fpc[t] \in {"clear", "set_drop"} /\ old[t] = p}
            IN \/ LAST_ERROR = p /\ holders = {} /\ heap[p].frees = 0
               \/ LAST_ERROR # p /\ Cardinality(holders) = 1 /\ heap[p].frees = 0
               \/ LAST_ERROR # p /\ holders = {} /\ heap[p].frees = 1

\* Both threads are inside set_last_error; thread 1 has swapped out the
\* string thread 2 had just put in, and will drop it.
C30_Witness ==
    /\ fpc[1] = "set_drop"
    /\ fpc[2] = "set_drop"
    /\ old[1] # Null
    /\ old[2] = Null
    /\ heap[old[1]].frees = 0

\* ---- C26 ----
\* One thread, any sequence of calls: onager_last_error() is non-null
\* exactly when the thread's most recent entry-point call took an error
\* path.
C26_Original ==
    \A t \in Threads :
        (Alone(t) /\ fpc[t] = "idle" /\ fret[t] # NoFfiRet /\ seen[t] # NoSeen)
            => ((seen[t].ptr # Null) <=> fret[t].err)

\* One thread, any sequence of calls: onager_last_error() is non-null
\* exactly when the most recent call of an entry point that begins with
\* clear_last_error() took an error path; for every entry point but
\* onager_get_version and onager_free that is the most recent call, and the
\* message read through the pointer is then the message of that call.
C26_LastClearingCall ==
    \A t \in Threads :
        (Alone(t) /\ fpc[t] = "idle" /\ fret[t] # NoFfiRet /\ seen[t] # NoSeen)
            => /\ (seen[t].ptr # Null) <=> fret[t].pending
               /\ fret[t].fn \notin {"onager_get_version", "onager_free"}
                      => /\ fret[t].pending = fret[t].err
                         /\ (fret[t].err /\ seen[t].msg # Unread)
                                => seen[t].msg = fret[t].msg

\* Thread 1, alone, failed a call, then called onager_get_version, and
\* reads the message of the failed call through onager_last_error().
C26_Witness ==
    /\ Alone(1)
    /\ fpc[1] = "idle"
    /\ fret[1].fn = "onager_get_version"
    /\ seen[1].ptr # Null
    /\ seen[1].msg = <<"GraphNotFound", "a">>

\* ---- C27 ----
\* One thread: when an entry point has returned -1 or NaN, the last-error
\* slot is not null.
C27_Sentinel ==
    \A t \in Threads :
        (Alone(t) /\ fpc[t] = "idle" /\ fret[t].value \in {<<-1>>, NaN})
            => LAST_ERROR # Null

====
